---------------------------- MODULE Spec2Model ----------------------------
(***************************************************************************)
(* Vendor billing back-office: the invoice list page (detail view, item    *)
(* editing, confirm / unconfirm), the batch calculation page, the vendor   *)
(* mapping page and the API client, with the backend they talk to.         *)
(*                                                                         *)
(* The FastAPI backend is not part of the source tree; its handlers are    *)
(* modelled from the specification and are marked "Srv" below.             *)
(***************************************************************************)
EXTENDS Integers, Sequences, FiniteSets, TLC

\* ------------------------------------------------------------------ bounds
NumInvoices == 1      \* invoices stored on the server
MaxVal      == 2      \* largest number typed into a numeric field
MaxEdits    == 1      \* item edits (change / add / remove) in one run of the page
MaxItemEdits == 3     \* item edits in one editing session (SpecEditing)
MaxFaults   == 1      \* requests that fail on the network in one run
MaxCalls    == 2      \* requests of the invoice page in flight at once
MaxDeletes  == 1      \* vendors deleted by other sessions in one run
MaxElapsed  == 1      \* longest time a calculation request takes, in seconds
MaxToggles  == 2      \* include checkboxes clicked in one run
NumSessions == 2      \* administrators on the mapping page at once
MaxMappingEdits == 2  \* form edits on the mapping pages in one run
MaxSelectCalls == 1   \* vendor loads one mapping page has in flight at once
NumStored   == 2      \* invoices in the store when deletions are examined
MaxLength   == 3      \* greatest length of a band end or of a shipped parcel, in cm
MaxRows     == 2      \* shipping-stat rows of the vendor in the period
MaxRateEdits == 1     \* changes made to the shipping-zone form in one run
MaxEngineCalls == 2   \* calculations answered in one run
MaxRateCalls == 1     \* requests of the rates page in flight at once
MaxClock    == 3      \* readings of the server's clock in one run

\* ------------------------------------------------------------- state
VARIABLES
    \* backend, invoice store
    srvInvoices,      \* invoice_id -> [items, total_amount, status, modified_by]
    \* InvoiceListPage (React state)
    invoices,         \* rows of the list, as last loaded
    loading,          \* list load in progress: the page renders only <Loading/>
    error,            \* the error banner
    detailInvoice,    \* invoice shown in the modal, NoDetail when null
    loadingDetail,
    isEditing,
    editItems,
    saving,
    calls,            \* handler invocations suspended at an await
    editsLeft,        \* edits of the form the run may still make
    faultsLeft,       \* network failures the run may still see
    \* backend, vendor registry and the data the engine reads
    srvVendors,       \* the vendor ids that exist
    srvStages,        \* calculation stage -> "ok" | "norate" | "nodata"
    \* InvoicePage (React state of the calculation page)
    vendors,          \* the vendor list as loaded
    showMode,
    selectedVendors,
    includeOptions,   \* the five include flags
    mode,
    singleVendor,     \* the vendor field, as its characters
    calcLoading,
    result,
    batchLogs,
    batchProgress,
    isBatchRunning,
    stopRequested,
    calcError,        \* the page's error banner
    batch,            \* the running handleBatchCalculate invocation
    single,           \* the running handleSingleCalculate invocation
    deletesLeft,      \* vendor deletions by other sessions still to come
    \* vendor registry and MappingPage (one page per administrator session)
    srvRegistry,      \* vendor -> its name and its aliases per source type
    pages,            \* session -> React state of its mapping page
    mapCalls,         \* suspended invocations of the mapping pages
    \* InvoiceListPage, selection and deletion
    isAdmin,          \* localStorage 'isAdmin' === 'true' in this session
    selectedIds,      \* the checked rows, in the order they were checked
    selectAll,
    pageVersion,      \* which InvoiceListPage the session runs
    \* backend, rate tables and the data of the courier-fee stage
    srvZoneRates,     \* rate plan -> the rows of its shipping-zone table
    srvStats,         \* lengths of the vendor's shipping-stat rows in the period
    engineLog,        \* the calculations answered so far
    \* RatesPage (React state) on the shipping-zone table
    ratesPage,
    rateCalls,        \* suspended invocations of the rates page
    \* backend, the charge lines of the vendor in the period
    srvVendorCharges, \* ad-hoc and recurring charges, as vendorCharges returns them
    srvStorageFees,   \* storage fees, as storageFees returns them
    \* backend, one calculation whose stages run side by side
    stageRun,
    \* the browser session and the server's clock
    localUser,        \* localStorage 'user'
    srvNow,           \* the time on the server
    \* InvoiceListPage, the status filter of the list
    selectedStatus,
    \* calculation page, the period
    dateFrom,
    dateTo

invoiceVars == <<srvInvoices, invoices, loading, error, detailInvoice,
                 loadingDetail, isEditing, editItems, saving, calls,
                 editsLeft, faultsLeft>>

calcVars == <<srvVendors, srvStages, vendors, showMode, selectedVendors,
              includeOptions, mode, singleVendor, calcLoading, result,
              batchLogs, batchProgress, isBatchRunning, stopRequested,
              calcError, batch, single, deletesLeft>>

mappingVars == <<srvRegistry, pages, mapCalls>>

selectionVars == <<isAdmin, selectedIds, selectAll, pageVersion>>

\* state of the pages that the calculation and mapping pages never touch
rateVars == <<srvZoneRates, srvStats, engineLog, ratesPage, rateCalls>>

chargeVars == <<srvVendorCharges, srvStorageFees, stageRun>>

sessionVars == <<localUser, srvNow>>

filterVars == <<selectedStatus>>

periodVars == <<dateFrom, dateTo>>

otherPageVars == <<selectionVars, rateVars, chargeVars, sessionVars, filterVars, periodVars>>

vars == <<invoiceVars, calcVars, mappingVars, otherPageVars>>

InvoiceIds == 1..NumInvoices

\* status values: '미확정' (Unconfirmed) and '확정' (Confirmed)
UNCONFIRMED == "Unconfirmed"
CONFIRMED   == "Confirmed"

\* An InvoiceItem {항목, 수량, 단가, 금액, 비고}
Item(hangmok, suryang, danga, geumaek, bigo) ==
    [hangmok |-> hangmok, suryang |-> suryang, danga |-> danga,
     geumaek |-> geumaek, bigo |-> bigo]

\* detailInvoice === null
NoDetail == [invoice_id |-> 0, items |-> <<>>, total_amount |-> 0, status |-> ""]

\* What the user can type into a numeric input: <<n>> is the text of the
\* number n, <<>> a text that Number() turns into NaN or 0 (empty, letters).
NumericInputs == {<<>>} \cup {<<n>> : n \in 0..MaxVal}
TextInputs == {"", "x"}

\* Number(value) || 0
NumberOrZero(value) == IF value = <<>> THEN 0 ELSE value[1]


NoError == ""

\* ---------------------------------------------------------------- helpers
RECURSIVE SumGeumaek(_)
\* items.reduce((sum, item) => sum + (item.금액 || 0), 0)
SumGeumaek(items) ==
    IF items = <<>> THEN 0
    ELSE Head(items).geumaek + SumGeumaek(Tail(items))

RECURSIVE SumSuryangDanga(_)
SumSuryangDanga(items) ==
    IF items = <<>> THEN 0
    ELSE Head(items).suryang * Head(items).danga + SumSuryangDanga(Tail(items))

\* mutant: the total of the edited list summed from quantity * unit price
editTotalAmountFromPrices == SumSuryangDanga(editItems)

\* const editTotalAmount = editItems.reduce(...)
editTotalAmount == SumGeumaek(editItems)

\* mutant: the last item is moved into the place of the removed one
RemoveAtSwapping(items, index) ==
    [k \in 1..(Len(items) - 1) |-> IF k = index THEN items[Len(items)] ELSE items[k]]

\* editItems.filter((_, i) => i !== index)
RemoveAt(items, index) ==
    [k \in 1..(Len(items) - 1) |-> IF k < index THEN items[k] ELSE items[k + 1]]

\* A handler invocation suspended at its await on fetch(): the request it
\* sent. closure is the detailInvoice its closure captured when it was
\* invoked, cont the handler that awaits it ("save": handleSave awaiting
\* handleViewDetail). Requests in flight complete in any order; a request
\* is served by the backend and its handler resumed in one step.
Call(op, id, items, closure, cont) ==
    [op |-> op, id |-> id, items |-> items, closure |-> closure, cont |-> cont,
     ids |-> <<>>, user |-> "", filter |-> selectedStatus]

\* what localStorage holds under 'user': nothing, text that is not JSON, or
\* the user object of the login with its nickname
NoStoredUser == [stored |-> FALSE, parses |-> FALSE, nickname |-> ""]
BrokenStoredUser == [stored |-> TRUE, parses |-> FALSE, nickname |-> ""]
StoredUser(nickname) == [stored |-> TRUE, parses |-> TRUE, nickname |-> nickname]

\* '시스템' (System)
SYSTEM == "System"

\* the nicknames of the users
Nicknames == {"kim", "lee"}

\* getCurrentUserNickname()
getCurrentUserNickname ==
    IF localUser.stored /\ localUser.parses /\ localUser.nickname # ""
    THEN localUser.nickname
    ELSE SYSTEM

\* the session of a user who is logged in, the list showing all statuses
SignedIn == localUser = StoredUser("kim") /\ srvNow = 1 /\ selectedStatus = ""

\* {(loadingDetail || detailInvoice) && ( ...modal... )}
ModalShown == loadingDetail \/ detailInvoice # NoDetail
\* if (loading) return <Loading .../>: nothing else is rendered
PageShown == ~loading
\* the modal overlay covers the list
ListShown == PageShown /\ ~ModalShown
\* {loadingDetail ? <Loading/> : detailInvoice && ( ... )}
DetailShown == PageShown /\ ~loadingDetail /\ detailInvoice # NoDetail

ListedIds == {invoices[k].invoice_id : k \in 1..Len(invoices)}
ListedRow(id) == invoices[CHOOSE k \in 1..Len(invoices) : invoices[k].invoice_id = id]

\* ------------------------------------------------------- backend (Srv)
\* The stored items of a freshly calculated invoice: every row is
\* quantity * unit price, the total is the sum of the amounts.
SrvCalculatedItems(id) ==
    IF id = 1 THEN <<Item("basic", 2, 1, 2, ""), Item("zone", 1, 1, 1, "")>>
    ELSE <<Item("basic", 1, 1, 1, "")>>

RECURSIVE SrvTotal(_)
SrvTotal(items) ==
    IF items = <<>> THEN 0 ELSE Head(items).geumaek + SrvTotal(Tail(items))

SrvNewInvoice(items) ==
    [items |-> items, total_amount |-> SrvTotal(items), status |-> UNCONFIRMED,
     modified_by |-> "", modified_at |-> 0]

\* GET /invoices/{id}
SrvGetInvoice(store, id) ==
    [invoice_id |-> id, items |-> store[id].items,
     total_amount |-> store[id].total_amount, status |-> store[id].status]

\* PUT /invoices/{id}/items: store the submitted list and the total
\* recomputed from it, as one transaction
SrvPutItems(store, id, items) ==
    [store EXCEPT ![id] = [@ EXCEPT !.items = items,
                                    !.total_amount = SrvTotal(items)]]

\* mutant: the stamp is written only on the first edit of an invoice
SrvStampOnce(store, id, nickname, now) ==
    IF store[id].modified_at = 0
    THEN [store EXCEPT ![id] = [@ EXCEPT !.modified_by = nickname, !.modified_at = now]]
    ELSE store

\* PUT /invoices/{id}/items, the stamp: modified_by is the user_nickname of
\* the request, modified_at the time of the write
SrvStamp(store, id, nickname, now) ==
    [store EXCEPT ![id] = [@ EXCEPT !.modified_by = nickname, !.modified_at = now]]

\* POST /invoices/{id}/confirm
SrvConfirm(store, id) == [store EXCEPT ![id].status = CONFIRMED]

\* POST /invoices/{id}/unconfirm
SrvUnconfirm(store, id) == [store EXCEPT ![id].status = UNCONFIRMED]

\* GET /invoices: one row per stored invoice, by ascending id
RECURSIVE SrvRows(_, _)
SrvRows(store, ids) ==
    IF ids = {} THEN <<>>
    ELSE LET id == CHOOSE i \in ids : \A j \in ids : i <= j
         IN <<[invoice_id |-> id, total_amount |-> store[id].total_amount,
               status |-> store[id].status]>> \o SrvRows(store, ids \ {id})

SrvListInvoices(store) == SrvRows(store, DOMAIN store)

\* mutant: the status parameter of the list request is ignored
SrvListFilteredNot(store, status) == SrvListInvoices(store)

\* GET /invoices?status=...: the rows with the status, all rows without it
SrvListFiltered(store, status) ==
    LET Matches(row) == status = "" \/ row.status = status
    IN SelectSeq(SrvListInvoices(store), Matches)

\* ------------------------------------------------ InvoiceListPage handlers
\* a fetch() that rejects (network failure): one of the run's faults
Fault ==
    /\ faultsLeft > 0
    /\ faultsLeft' = faultsLeft - 1

\* loadInvoices(), up to its await: setLoading(true); setError(null); fetch
\* (cs: the suspended invocations that remain; filter: the selectedStatus
\* of the render whose loadInvoices is called)
loadInvoices(cs, filter) ==
    /\ loading' = TRUE
    /\ calls' = cs \cup {[Call("list", 0, <<>>, NoDetail, "") EXCEPT !.filter = filter]}

\* loadInvoices() called by a handler that resumes after its await: the
\* function is the one of the render in which the handler was started, and
\* reads the filter of that render
loadInvoicesOf(c) == loadInvoices(calls \ {c}, c.filter)

\* the status select: setSelectedStatus, and the effect on [selectedPeriod,
\* selectedVendor, selectedStatus] loads the list with the new filter
setSelectedStatus(status) ==
    /\ ListShown
    /\ status # selectedStatus
    /\ Cardinality(calls) < MaxCalls
    /\ selectedStatus' = status
    /\ loadInvoices(calls, status)
    /\ UNCHANGED <<srvInvoices, invoices, error, detailInvoice, loadingDetail, isEditing,
                   editItems, saving, editsLeft, faultsLeft>>

\* loadInvoices() resumes with the list
ReceiveList(c) ==
    /\ c \in calls /\ c.op = "list"
    /\ invoices' = SrvListFiltered(srvInvoices, c.filter)
    /\ loading' = FALSE
    /\ calls' = calls \ {c}
    /\ UNCHANGED <<srvInvoices, error, detailInvoice, loadingDetail, isEditing,
                   editItems, saving, editsLeft, faultsLeft>>

\* loadInvoices(), catch: setError(...); setInvoices([])
FailList(c) ==
    /\ c \in calls /\ c.op = "list"
    /\ Fault
    /\ invoices' = <<>>
    /\ error' = "load failed"
    /\ loading' = FALSE
    /\ calls' = calls \ {c}
    /\ UNCHANGED <<srvInvoices, detailInvoice, loadingDetail, isEditing,
                   editItems, saving, editsLeft>>

\* handleViewDetail(invoiceId), up to its await
handleViewDetail(invoiceId, cs, cont, filter) ==
    /\ loadingDetail' = TRUE
    /\ isEditing' = FALSE
    /\ calls' = cs \cup {[Call("detail", invoiceId, <<>>, NoDetail, cont) EXCEPT !.filter = filter]}

\* the detail button of a list row
ClickViewDetail(invoiceId) ==
    /\ ListShown /\ invoiceId \in ListedIds
    /\ Cardinality(calls) < MaxCalls
    /\ handleViewDetail(invoiceId, calls, "", selectedStatus)
    /\ UNCHANGED <<srvInvoices, invoices, loading, error, detailInvoice,
                   editItems, saving, editsLeft, faultsLeft>>

\* mutant: the detail view takes the items and keeps the total it had
setDetailInvoiceItemsOnly(data) ==
    IF detailInvoice = NoDetail THEN data
    ELSE [data EXCEPT !.total_amount = detailInvoice.total_amount]

\* setDetailInvoice(data): the detail view takes the response as a whole
setDetailInvoice(data) == data

\* handleSave after its await on handleViewDetail: setIsEditing(false);
\* loadInvoices(); finally setSaving(false)
AfterDetail(c) ==
    IF c.cont = "save"
      THEN /\ isEditing' = FALSE
           /\ loadInvoicesOf(c)
           /\ saving' = FALSE
      ELSE /\ calls' = calls \ {c}
           /\ UNCHANGED <<isEditing, loading, saving>>

\* handleViewDetail resumes with the invoice
ReceiveDetail(c) ==
    /\ c \in calls /\ c.op = "detail"
    /\ detailInvoice' = setDetailInvoice(SrvGetInvoice(srvInvoices, c.id))
    /\ editItems' = SrvGetInvoice(srvInvoices, c.id).items
    /\ loadingDetail' = FALSE
    /\ AfterDetail(c)
    /\ error' = IF c.cont = "save" THEN NoError ELSE error
    /\ UNCHANGED <<srvInvoices, invoices, editsLeft, faultsLeft>>

\* handleViewDetail, catch: setError(...); it does not rethrow
FailDetail(c) ==
    /\ c \in calls /\ c.op = "detail"
    /\ Fault
    /\ loadingDetail' = FALSE
    /\ AfterDetail(c)
    /\ error' = IF c.cont = "save" THEN NoError ELSE "detail failed"
    /\ UNCHANGED <<srvInvoices, invoices, detailInvoice, editItems, editsLeft>>

\* the overlay or the X button: setDetailInvoice(null); setIsEditing(false)
CloseModal ==
    /\ PageShown /\ ModalShown
    /\ detailInvoice' = NoDetail
    /\ isEditing' = FALSE
    /\ UNCHANGED <<srvInvoices, invoices, loading, error, loadingDetail,
                   editItems, saving, calls, editsLeft, faultsLeft>>

\* mutant: only an Unconfirmed invoice enters edit mode
handleStartEditUnconfirmedOnly ==
    /\ DetailShown /\ ~isEditing
    /\ detailInvoice.status = UNCONFIRMED
    /\ editItems' = detailInvoice.items
    /\ isEditing' = TRUE
    /\ UNCHANGED <<srvInvoices, invoices, loading, error, detailInvoice,
                   loadingDetail, saving, calls, editsLeft, faultsLeft>>

handleStartEdit ==
    /\ DetailShown /\ ~isEditing
    /\ editItems' = detailInvoice.items
    /\ isEditing' = TRUE
    /\ UNCHANGED <<srvInvoices, invoices, loading, error, detailInvoice,
                   loadingDetail, saving, calls, editsLeft, faultsLeft>>

handleCancelEdit ==
    /\ DetailShown /\ isEditing
    /\ editItems' = detailInvoice.items
    /\ isEditing' = FALSE
    /\ UNCHANGED <<srvInvoices, invoices, loading, error, detailInvoice,
                   loadingDetail, saving, calls, editsLeft, faultsLeft>>

\* mutant: the amount is not recomputed when quantity or unit price change
ItemChangedNoRecalc(items, index, field, value) ==
    LET old == items[index]
    IN [items EXCEPT ![index] =
          CASE field = "suryang" -> [old EXCEPT !.suryang = NumberOrZero(value)]
            [] field = "danga"   -> [old EXCEPT !.danga = NumberOrZero(value)]
            [] field = "geumaek" -> [old EXCEPT !.geumaek = NumberOrZero(value)]
            [] field = "hangmok" -> [old EXCEPT !.hangmok = value]
            [] field = "bigo"    -> [old EXCEPT !.bigo = value]]

\* the item list after handleItemChange(index, field, value)
ItemChanged(items, index, field, value) ==
    LET old == items[index]
        set == CASE field = "suryang" -> [old EXCEPT !.suryang = NumberOrZero(value)]
                 [] field = "danga"   -> [old EXCEPT !.danga = NumberOrZero(value)]
                 [] field = "geumaek" -> [old EXCEPT !.geumaek = NumberOrZero(value)]
                 [] field = "hangmok" -> [old EXCEPT !.hangmok = value]
                 [] field = "bigo"    -> [old EXCEPT !.bigo = value]
        new == IF field \in {"suryang", "danga"}
                 THEN [set EXCEPT !.geumaek = set.suryang * set.danga]
                 ELSE set
    IN [items EXCEPT ![index] = new]

handleItemChange(index, field, value) ==
    /\ DetailShown /\ isEditing
    /\ index \in 1..Len(editItems)
    /\ editsLeft > 0
    /\ editItems' = ItemChanged(editItems, index, field, value)
    /\ editsLeft' = editsLeft - 1
    /\ UNCHANGED <<srvInvoices, invoices, loading, error, detailInvoice,
                   loadingDetail, isEditing, saving, calls, faultsLeft>>

\* the item handleAddItem appends
NewItem == Item("", 0, 0, 0, "")

handleAddItem ==
    /\ DetailShown /\ isEditing
    /\ editsLeft > 0
    /\ editItems' = Append(editItems, NewItem)
    /\ editsLeft' = editsLeft - 1
    /\ UNCHANGED <<srvInvoices, invoices, loading, error, detailInvoice,
                   loadingDetail, isEditing, saving, calls, faultsLeft>>

handleRemoveItem(index) ==
    /\ DetailShown /\ isEditing
    /\ index \in 1..Len(editItems)
    /\ editsLeft > 0
    /\ editItems' = RemoveAt(editItems, index)
    /\ editsLeft' = editsLeft - 1
    /\ UNCHANGED <<srvInvoices, invoices, loading, error, detailInvoice,
                   loadingDetail, isEditing, saving, calls, faultsLeft>>

\* handleSave, up to its await: PUT the edited list
handleSave ==
    /\ DetailShown /\ isEditing /\ ~saving
    /\ Cardinality(calls) < MaxCalls
    /\ saving' = TRUE
    /\ error' = NoError
    /\ calls' = calls \cup
          {[Call("save", detailInvoice.invoice_id, editItems, NoDetail, "")
              EXCEPT !.user = getCurrentUserNickname]}
    /\ UNCHANGED <<srvInvoices, invoices, loading, detailInvoice,
                   loadingDetail, isEditing, editItems, editsLeft, faultsLeft>>

\* handleSave resumes with the PUT's response: await handleViewDetail(id)
ReceiveSave(c) ==
    /\ c \in calls /\ c.op = "save"
    /\ srvInvoices' = SrvStamp(SrvPutItems(srvInvoices, c.id, c.items), c.id, c.user, srvNow)
    /\ handleViewDetail(c.id, calls \ {c}, "save", c.filter)
    /\ UNCHANGED <<invoices, loading, error, detailInvoice, editItems, saving,
                   editsLeft, faultsLeft>>

\* handleSave, catch: setError(...); finally setSaving(false)
FailSave(c) ==
    /\ c \in calls /\ c.op = "save"
    /\ Fault
    /\ error' = "save failed"
    /\ saving' = FALSE
    /\ calls' = calls \ {c}
    /\ UNCHANGED <<srvInvoices, invoices, loading, detailInvoice, loadingDetail,
                   isEditing, editItems, editsLeft>>

\* handleConfirm / handleUnconfirm, up to the await
SendStatusChange(op, invoiceId) ==
    /\ Cardinality(calls) < MaxCalls
    /\ calls' = calls \cup {Call(op, invoiceId, <<>>, detailInvoice, "")}
    /\ UNCHANGED <<srvInvoices, invoices, loading, error, detailInvoice,
                   loadingDetail, isEditing, editItems, saving, editsLeft, faultsLeft>>

\* list row: {inv.status === '확정' ? 확정해제 : 확정}
ClickConfirmInList(invoiceId) ==
    /\ ListShown /\ invoiceId \in ListedIds
    /\ ListedRow(invoiceId).status # CONFIRMED
    /\ SendStatusChange("confirm", invoiceId)

ClickUnconfirmInList(invoiceId) ==
    /\ ListShown /\ invoiceId \in ListedIds
    /\ ListedRow(invoiceId).status = CONFIRMED
    /\ SendStatusChange("unconfirm", invoiceId)

\* modal: {detailInvoice.status === '확정' ? 확정 해제 : 인보이스 확정}
ClickConfirmInDetail ==
    /\ DetailShown /\ detailInvoice.status # CONFIRMED
    /\ SendStatusChange("confirm", detailInvoice.invoice_id)

ClickUnconfirmInDetail ==
    /\ DetailShown /\ detailInvoice.status = CONFIRMED
    /\ SendStatusChange("unconfirm", detailInvoice.invoice_id)

\* mutant: the status literal written by handleConfirm is not a status
ConfirmedDetailTypo(detail) == [detail EXCEPT !.status = "Confirm"]

\* { ...detailInvoice, status: '확정' } and { ...detailInvoice, status: '미확정' }
ConfirmedDetail(detail) == [detail EXCEPT !.status = CONFIRMED]
UnconfirmedDetail(detail) == [detail EXCEPT !.status = UNCONFIRMED]

\* handleConfirm / handleUnconfirm resume: if (res.ok) { loadInvoices();
\* if (detailInvoice?.invoice_id === invoiceId)
\*     setDetailInvoice({ ...detailInvoice, status }) }
ReceiveStatusChange(c) ==
    /\ c \in calls /\ c.op \in {"confirm", "unconfirm"}
    /\ srvInvoices' = IF c.op = "confirm" THEN SrvConfirm(srvInvoices, c.id)
                                          ELSE SrvUnconfirm(srvInvoices, c.id)
    /\ loadInvoicesOf(c)
    /\ error' = NoError
    /\ detailInvoice' =
         IF c.closure.invoice_id = c.id
           THEN IF c.op = "confirm" THEN ConfirmedDetail(c.closure)
                                    ELSE UnconfirmedDetail(c.closure)
           ELSE detailInvoice
    /\ UNCHANGED <<invoices, loadingDetail, isEditing, editItems, saving,
                   editsLeft, faultsLeft>>

\* handleConfirm / handleUnconfirm, catch: setError(...)
FailStatusChange(c) ==
    /\ c \in calls /\ c.op \in {"confirm", "unconfirm"}
    /\ Fault
    /\ error' = "status change failed"
    /\ calls' = calls \ {c}
    /\ UNCHANGED <<srvInvoices, invoices, loading, detailInvoice, loadingDetail,
                   isEditing, editItems, saving, editsLeft>>

\* handleExportSingle: window.open(...), no state of the page changes
handleExportSingle(invoiceId) ==
    /\ \/ ListShown /\ invoiceId \in ListedIds
       \/ DetailShown /\ invoiceId = detailInvoice.invoice_id
    /\ UNCHANGED vars

\* ------------------------------------------------ selection and deletion
\* DELETE /invoices/{id}: the invoice is removed from the store
SrvDeleteInvoice(store, id) == [i \in DOMAIN store \ {id} |-> store[i]]

\* the body of a response for an invoice the store does not hold: it has
\* no invoice_id, no items and no status
NotFoundBody == [invoice_id |-> 0, items |-> <<>>, total_amount |-> 0, status |-> "not found"]

\* a suspended handleDeleteSelected: ids are the selected ids not yet
\* deleted, the request for the first of them is in flight
BulkCall(op, ids) == [Call(op, Head(ids), <<>>, NoDetail, "") EXCEPT !.ids = ids]

handleToggleSelect(id) ==
    /\ ListShown /\ id \in ListedIds
    /\ LET Other(x) == x # id
       IN selectedIds' = IF \E k \in 1..Len(selectedIds) : selectedIds[k] = id
                         THEN SelectSeq(selectedIds, Other)
                         ELSE Append(selectedIds, id)
    /\ UNCHANGED <<invoiceVars, isAdmin, selectAll, pageVersion>>

\* the checkbox of the table head: handleSelectAll of the invoice list
handleSelectAllRows ==
    /\ ListShown
    /\ IF selectAll
       THEN selectedIds' = <<>> /\ selectAll' = FALSE
       ELSE /\ selectedIds' = [k \in 1..Len(invoices) |-> invoices[k].invoice_id]
            /\ selectAll' = TRUE
    /\ UNCHANGED <<invoiceVars, isAdmin, pageVersion>>

\* handleExportSelected: window.open with the selected ids joined into the
\* address; no state of the page changes
handleExportSelected ==
    /\ ListShown
    /\ Len(selectedIds) # 0
    /\ UNCHANGED vars

\* handleDelete(invoiceId), up to its await; the button of a list row is
\* rendered only for an administrator, and the user accepts the dialog
handleDelete(invoiceId) ==
    /\ pageVersion = "editing"
    /\ ListShown /\ invoiceId \in ListedIds
    /\ isAdmin
    /\ Cardinality(calls) < MaxCalls
    /\ IF ~isAdmin
       THEN error' = "no permission" /\ UNCHANGED calls
       ELSE /\ calls' = calls \cup {Call("delete", invoiceId, <<>>, detailInvoice, "")}
            /\ UNCHANGED error
    /\ UNCHANGED <<srvInvoices, invoices, loading, detailInvoice, loadingDetail,
                   isEditing, editItems, saving, editsLeft, faultsLeft, selectionVars>>

\* handleDelete resumes with the response: loadInvoices(); the detail is
\* closed if the invocation saw it showing this invoice
ReceiveDelete(c) ==
    /\ c \in calls /\ c.op = "delete"
    /\ IF c.id \in DOMAIN srvInvoices
       THEN /\ srvInvoices' = SrvDeleteInvoice(srvInvoices, c.id)
            /\ loadInvoicesOf(c)
            /\ error' = NoError
            /\ detailInvoice' = IF c.closure.invoice_id = c.id THEN NoDetail
                                                               ELSE detailInvoice
       ELSE /\ error' = "delete failed"
            /\ calls' = calls \ {c}
            /\ UNCHANGED <<srvInvoices, loading, detailInvoice>>
    /\ UNCHANGED <<invoices, loadingDetail, isEditing, editItems, saving,
                   editsLeft, faultsLeft, selectionVars>>

\* handleDeleteSelected(), up to its first await
handleDeleteSelected ==
    /\ pageVersion = "editing"
    /\ ListShown
    /\ isAdmin
    /\ Len(selectedIds) # 0
    /\ Cardinality(calls) < MaxCalls
    /\ IF ~isAdmin
       THEN error' = "no permission" /\ UNCHANGED calls
       ELSE /\ calls' = calls \cup {BulkCall("deleteSelected", selectedIds)}
            /\ UNCHANGED error
    /\ UNCHANGED <<srvInvoices, invoices, loading, detailInvoice, loadingDetail,
                   isEditing, editItems, saving, editsLeft, faultsLeft, selectionVars>>

\* handleDeleteSelected resumes with the response for one id: the next
\* request, or the end of the loop, or the throw on a response that is
\* not ok
ReceiveDeleteSelected(c) ==
    /\ c \in calls /\ c.op = "deleteSelected"
    /\ IF c.id \notin DOMAIN srvInvoices
       THEN /\ error' = "delete failed"
            /\ calls' = calls \ {c}
            /\ UNCHANGED <<srvInvoices, loading, selectedIds, selectAll>>
       ELSE /\ srvInvoices' = SrvDeleteInvoice(srvInvoices, c.id)
            /\ IF Len(c.ids) > 1
               THEN /\ calls' = (calls \ {c}) \cup {[BulkCall(c.op, Tail(c.ids)) EXCEPT !.filter = c.filter]}
                    /\ UNCHANGED <<error, loading, selectedIds, selectAll>>
               ELSE /\ selectedIds' = <<>>
                    /\ selectAll' = FALSE
                    /\ loadInvoicesOf(c)
                    /\ error' = NoError
    /\ UNCHANGED <<invoices, detailInvoice, loadingDetail, isEditing, editItems,
                   saving, editsLeft, faultsLeft, isAdmin, pageVersion>>

\* handleDeleteSelected, catch: the fetch rejects, or the server answers
\* with an error without deleting; the throw leaves the loop, and neither
\* setSelectedIds([]) nor loadInvoices() is reached
FailDeleteSelected(c) ==
    /\ c \in calls /\ c.op = "deleteSelected"
    /\ Fault
    /\ error' = "delete failed"
    /\ calls' = calls \ {c}
    /\ UNCHANGED <<srvInvoices, invoices, loading, detailInvoice, loadingDetail,
                   isEditing, editItems, saving, editsLeft, selectionVars>>

\* handleDelete(invoiceId) of the page without item editing, up to its
\* await: the button is rendered for every session
handleDelete005(invoiceId) ==
    /\ pageVersion = "plain"
    /\ ListShown /\ invoiceId \in ListedIds
    /\ Cardinality(calls) < MaxCalls
    /\ calls' = calls \cup {Call("delete005", invoiceId, <<>>, detailInvoice, "")}
    /\ UNCHANGED <<srvInvoices, invoices, loading, error, detailInvoice, loadingDetail,
                   isEditing, editItems, saving, editsLeft, faultsLeft, selectionVars>>

\* it resumes: if (res.ok) { loadInvoices(); ... }
ReceiveDelete005(c) ==
    /\ c \in calls /\ c.op = "delete005"
    /\ IF c.id \in DOMAIN srvInvoices
       THEN /\ srvInvoices' = SrvDeleteInvoice(srvInvoices, c.id)
            /\ loadInvoicesOf(c)
            /\ error' = NoError
            /\ detailInvoice' = IF c.closure.invoice_id = c.id THEN NoDetail
                                                               ELSE detailInvoice
       ELSE /\ calls' = calls \ {c}
            /\ UNCHANGED <<srvInvoices, loading, error, detailInvoice>>
    /\ UNCHANGED <<invoices, loadingDetail, isEditing, editItems, saving,
                   editsLeft, faultsLeft, selectionVars>>

\* handleDeleteSelected() of the page without item editing
handleDeleteSelected005 ==
    /\ pageVersion = "plain"
    /\ ListShown
    /\ Len(selectedIds) # 0
    /\ Cardinality(calls) < MaxCalls
    /\ calls' = calls \cup {BulkCall("deleteSelected005", selectedIds)}
    /\ UNCHANGED <<srvInvoices, invoices, loading, error, detailInvoice, loadingDetail,
                   isEditing, editItems, saving, editsLeft, faultsLeft, selectionVars>>

\* it resumes with the response for one id, which it does not look at
ReceiveDeleteSelected005(c) ==
    /\ c \in calls /\ c.op = "deleteSelected005"
    /\ srvInvoices' = SrvDeleteInvoice(srvInvoices, c.id)
    /\ IF Len(c.ids) > 1
       THEN /\ calls' = (calls \ {c}) \cup {[BulkCall(c.op, Tail(c.ids)) EXCEPT !.filter = c.filter]}
            /\ UNCHANGED <<error, loading, selectedIds, selectAll>>
       ELSE /\ selectedIds' = <<>>
            /\ selectAll' = FALSE
            /\ loadInvoicesOf(c)
            /\ error' = NoError
    /\ UNCHANGED <<invoices, detailInvoice, loadingDetail, isEditing, editItems,
                   saving, editsLeft, faultsLeft, isAdmin, pageVersion>>

\* handleViewDetail resumes with the response for an invoice that is gone:
\* setDetailInvoice(data) takes the body, data.items.map throws, the catch
\* sets the error
RefuseDetail(c) ==
    /\ c \in calls /\ c.op = "detail"
    /\ c.id \notin DOMAIN srvInvoices
    /\ detailInvoice' = setDetailInvoice(NotFoundBody)
    /\ loadingDetail' = FALSE
    /\ AfterDetail(c)
    /\ error' = IF c.cont = "save" THEN NoError ELSE "detail failed"
    /\ UNCHANGED <<srvInvoices, invoices, editItems, editsLeft, faultsLeft>>

\* handleConfirm / handleUnconfirm resume with a response that is not ok:
\* nothing is done
RefuseStatusChange(c) ==
    /\ c \in calls /\ c.op \in {"confirm", "unconfirm"}
    /\ c.id \notin DOMAIN srvInvoices
    /\ calls' = calls \ {c}
    /\ UNCHANGED <<srvInvoices, invoices, loading, error, detailInvoice, loadingDetail,
                   isEditing, editItems, saving, editsLeft, faultsLeft>>

\* handleSave resumes with a response that is not ok: throw, setError,
\* setSaving(false)
RefuseSave(c) ==
    /\ c \in calls /\ c.op = "save"
    /\ c.id \notin DOMAIN srvInvoices
    /\ error' = "save failed"
    /\ saving' = FALSE
    /\ calls' = calls \ {c}
    /\ UNCHANGED <<srvInvoices, invoices, loading, detailInvoice, loadingDetail,
                   isEditing, editItems, editsLeft, faultsLeft>>

\* ------------------------------------------- calculation engine (backend)
\* The engine is not part of the frontend sources; it is modelled from its
\* specified behaviour: vendor resolution, five gated stages, the ungated
\* charges, and the assembled total.
Stages == <<"basic_shipping", "courier_fee", "inbound_fee", "remote_fee", "worklog">>

StageSet == {Stages[k] : k \in 1..Len(Stages)}

StageQuantity == [s \in StageSet |-> IF s = "basic_shipping" THEN 2 ELSE 1]

StagePrice == [s \in StageSet |-> IF s = "courier_fee" THEN 2 ELSE 1]

\* what one stage adds to the items
SrvStageItems(stages, options, s) ==
    IF options[s] /\ stages[s] = "ok"
    THEN <<Item(s, StageQuantity[s], StagePrice[s], StageQuantity[s] * StagePrice[s], "")>>
    ELSE <<>>

\* what one stage adds to the warnings
SrvStageWarnings(stages, options, s) ==
    IF options[s] /\ stages[s] # "ok" THEN <<[stage |-> s, message |-> stages[s]]>> ELSE <<>>

RECURSIVE SrvItemsUpTo(_, _, _)
SrvItemsUpTo(stages, options, k) ==
    IF k = 0 THEN <<>>
    ELSE SrvItemsUpTo(stages, options, k - 1) \o SrvStageItems(stages, options, Stages[k])

RECURSIVE SrvWarningsUpTo(_, _, _)
SrvWarningsUpTo(stages, options, k) ==
    IF k = 0 THEN <<>>
    ELSE SrvWarningsUpTo(stages, options, k - 1) \o SrvStageWarnings(stages, options, Stages[k])

\* the charge lines in the database unless a run says otherwise
OneCharge == <<Item("charges", 1, 1, 1, "")>>

\* vendor charges and storage fees, appended whatever the flags say
SrvCharges == srvVendorCharges \o srvStorageFees

\* mutant: the charges are a stage like the others, run when a flag is set
SrvCalculateGated(registry, stages, params) ==
    IF params.vendor \notin registry
    THEN [ok |-> FALSE, text |-> "VendorNotFound", json |-> <<>>]
    ELSE LET items == SrvItemsUpTo(stages, params.options, Len(Stages))
                         \o (IF \E s \in StageSet : params.options[s]
                             THEN SrvCharges ELSE <<>>)
         IN [ok |-> TRUE, text |-> "",
             json |-> [success |-> TRUE,
                       vendor |-> params.vendor,
                       items |-> items,
                       total_amount |-> SrvTotal(items),
                       warnings |-> SrvWarningsUpTo(stages, params.options, Len(Stages))]]

\* POST /calculate
SrvCalculate(registry, stages, params) ==
    IF params.vendor \notin registry
    THEN [ok |-> FALSE, text |-> "VendorNotFound", json |-> <<>>]
    ELSE LET items == SrvItemsUpTo(stages, params.options, Len(Stages)) \o SrvCharges
         IN [ok |-> TRUE, text |-> "",
             json |-> [success |-> TRUE,
                       vendor |-> params.vendor,
                       items |-> items,
                       total_amount |-> SrvTotal(items),
                       warnings |-> SrvWarningsUpTo(stages, params.options, Len(Stages))]]

\* ---- the stages of one calculation run in any order
\* The engine may run the stages of a calculation side by side; each stage
\* hands in its items and warnings when it ends, and the response is put
\* together when all have ended.
NoStageRun == [running |-> FALSE, options |-> <<>>, ended |-> <<>>,
               items |-> <<>>, warnings |-> <<>>]

\* the stages that have not handed in their result
StagesRunning(run) == StageSet \ {run.ended[k] : k \in 1..Len(run.ended)}

\* mutant: the warnings are kept in the order in which the stages ended
RECURSIVE SrvMergeWarningsAsEnded(_, _, _)
SrvMergeWarningsAsEnded(stages, options, ended) ==
    IF ended = <<>> THEN <<>>
    ELSE SrvStageWarnings(stages, options, Head(ended))
         \o SrvMergeWarningsAsEnded(stages, options, Tail(ended))

\* the warnings of the stages that have ended, in stage order
SrvMergeWarnings(stages, options, ended) ==
    LET Part(k) == IF \E i \in 1..Len(ended) : ended[i] = Stages[k]
                   THEN SrvStageWarnings(stages, options, Stages[k]) ELSE <<>>
    IN Part(1) \o Part(2) \o Part(3) \o Part(4) \o Part(5)

\* the items of the stages that have ended, in stage order
SrvMergeItems(stages, options, ended) ==
    LET Part(k) == IF \E i \in 1..Len(ended) : ended[i] = Stages[k]
                   THEN SrvStageItems(stages, options, Stages[k]) ELSE <<>>
    IN Part(1) \o Part(2) \o Part(3) \o Part(4) \o Part(5)

\* a calculation starts all its stages
SrvStartStages(options) ==
    /\ ~stageRun.running
    /\ stageRun.ended = <<>>
    /\ stageRun' = [NoStageRun EXCEPT !.running = TRUE, !.options = options]
    /\ UNCHANGED <<srvStages, srvVendorCharges, srvStorageFees>>

\* one of the running stages ends
SrvEndStage(s) ==
    /\ stageRun.running
    /\ s \in StagesRunning(stageRun)
    /\ stageRun' = [stageRun EXCEPT !.ended = Append(@, s)]
    /\ UNCHANGED <<srvStages, srvVendorCharges, srvStorageFees>>

\* all stages have ended: the response is put together
SrvMergeStages ==
    /\ stageRun.running
    /\ StagesRunning(stageRun) = {}
    /\ stageRun' = [stageRun EXCEPT
          !.running = FALSE,
          !.items = SrvMergeItems(srvStages, stageRun.options, stageRun.ended) \o SrvCharges,
          !.warnings = SrvMergeWarnings(srvStages, stageRun.options, stageRun.ended)]
    /\ UNCHANGED <<srvStages, srvVendorCharges, srvStorageFees>>

\* GET /vendors as the page saw it when it mounted
SrvVendorList ==
    << [vendor |-> <<"A">>, active |-> "YES"],
       [vendor |-> <<"B">>, active |-> "YES"],
       [vendor |-> <<"C">>, active |-> "NO"] >>

\* a vendor is deleted by another session
SrvDeleteVendor(v) ==
    /\ deletesLeft > 0
    /\ v \in srvVendors
    /\ srvVendors' = srvVendors \ {v}
    /\ deletesLeft' = deletesLeft - 1
    /\ UNCHANGED <<invoiceVars, mappingVars, otherPageVars, srvStages, vendors, showMode, selectedVendors,
                   includeOptions, mode, singleVendor, calcLoading, result,
                   batchLogs, batchProgress, isBatchRunning, stopRequested,
                   calcError, batch, single>>

\* ------------------------------------------------------------- api client
ConnectError == "cannot connect to the server"

\* mutant: a response that is not ok is returned like a result
fetchApiIgnoringStatus(reachable, response) ==
    IF ~reachable THEN [threw |-> TRUE, message |-> ConnectError, data |-> <<>>]
    ELSE [threw |-> FALSE, message |-> "",
          data |-> IF response.ok THEN response.json
                   ELSE [success |-> FALSE, vendor |-> <<>>, items |-> <<>>,
                         total_amount |-> 0, warnings |-> <<>>]]

\* fetchApi: throws when fetch fails and when the response is not ok,
\* returns the parsed body otherwise
fetchApi(reachable, response) ==
    IF ~reachable THEN [threw |-> TRUE, message |-> ConnectError, data |-> <<>>]
    ELSE IF ~response.ok
         THEN [threw |-> TRUE,
               message |-> IF response.text # "" THEN response.text ELSE "API Error",
               data |-> <<>>]
         ELSE [threw |-> FALSE, message |-> "", data |-> response.json]

\* calculateInvoice(params), as completed against the backend
calculateInvoice(reachable, params) ==
    fetchApi(reachable, SrvCalculate(srvVendors, srvStages, params))

CalculateParams(vendor, from, to, options) ==
    [vendor |-> vendor, date_from |-> from, date_to |-> to, options |-> options]

\* ------------------------------------------------ rate tables (backend)
\* The rate table store is not part of the frontend sources; it is modelled
\* from its specified behaviour: per rate plan a table of length bands
\* [len_min_cm, len_max_cm) that must be contiguous and must not overlap,
\* which the store enforces when a table is written.
RatePlans == {"STD", "A"}

Lengths == 0..MaxLength

ShippingZoneRate(plan, zone, min, max, price) ==
    [yogeumje |-> plan, gugan |-> zone, len_min_cm |-> min, len_max_cm |-> max,
     yogeum |-> price]

\* rows in ascending order of len_min_cm (insertion sort)
RECURSIVE SrvInsertBand(_, _)
SrvInsertBand(row, sorted) ==
    IF sorted = <<>> THEN <<row>>
    ELSE IF row.len_min_cm <= Head(sorted).len_min_cm THEN <<row>> \o sorted
    ELSE <<Head(sorted)>> \o SrvInsertBand(row, Tail(sorted))

RECURSIVE SrvSortBands(_)
SrvSortBands(rows) ==
    IF rows = <<>> THEN <<>> ELSE SrvInsertBand(Head(rows), SrvSortBands(Tail(rows)))

\* mutant: the write-time check looks at each band on its own
SrvBandsAcceptedEach(rows) ==
    \A k \in 1..Len(rows) : rows[k].len_min_cm < rows[k].len_max_cm

\* the write-time check: every band is a non-empty interval and, in
\* ascending order, each band starts where the one before it ends
SrvBandsAccepted(rows) ==
    LET sorted == SrvSortBands(rows)
    IN \A k \in 1..Len(sorted) :
          /\ sorted[k].len_min_cm < sorted[k].len_max_cm
          /\ k < Len(sorted) => sorted[k + 1].len_min_cm = sorted[k].len_max_cm

\* POST /rates/shipping_zone?rate_type=plan: the response
SrvSaveShippingZoneResponse(plan, rows) ==
    IF SrvBandsAccepted(rows)
    THEN [ok |-> TRUE, text |-> "", json |-> [status |-> "ok", count |-> Len(rows)]]
    ELSE [ok |-> FALSE, text |-> "bands overlap or leave a gap", json |-> <<>>]

\* POST /rates/shipping_zone?rate_type=plan: the table afterwards
SrvSaveShippingZoneStore(store, plan, rows) ==
    IF SrvBandsAccepted(rows) THEN [store EXCEPT ![plan] = rows] ELSE store

\* mutant: stored invoices refer to the rate rows and follow their prices
SrvInvoicesRepriced(store, rates) ==
    LET Rows(zone) == {<<p, k>> \in RatePlans \X (1..MaxLength + 1) :
                          k <= Len(rates[p]) /\ rates[p][k].gugan = zone}
        Price(zone) == IF Rows(zone) = {} THEN 0
                       ELSE LET r == CHOOSE r \in Rows(zone) : TRUE
                            IN rates[r[1]][r[2]].yogeum
        Repriced(item) == [item EXCEPT !.danga = Price(item.hangmok),
                                       !.geumaek = item.suryang * Price(item.hangmok)]
    IN [id \in DOMAIN store |->
          [store[id] EXCEPT !.items = [k \in 1..Len(store[id].items) |->
                                          Repriced(store[id].items[k])]]]

\* the invoice store after a write to a rate table: invoices hold the
\* amounts computed when they were generated, not a reference to the rows
SrvInvoicesAfterRateChange(store, rates) == store

\* ------------------------------------------------------- RatesPage handlers
\* The page with selectedTable = 'shipping_zone'.
NoRatesPage == [rateType |-> "STD", shippingZoneData |-> <<>>, loading |-> TRUE,
                saving |-> FALSE, error |-> NoError, success |-> ""]

\* a suspended loadData or handleSave with the values it closed over
RateCall(op, plan, rates) == [op |-> op, rateType |-> plan, rates |-> rates]

\* the zone labels that can be typed into a text input of the table
ZoneInputs == {"z1", "z2"}

\* what can be typed into a number input of the table
LengthInputs == {<<>>} \cup {<<n>> : n \in Lengths}

\* parseInt(String(value)) || 0
ParseIntOrZero(value) == IF value = <<>> THEN 0 ELSE value[1]

\* getShippingZoneRates(rateType), as completed against the backend
getShippingZoneRates(reachable, plan) ==
    fetchApi(reachable, [ok |-> TRUE, text |-> "", json |-> srvZoneRates[plan]])

\* saveShippingZoneRates(rates, rateType), as completed against the backend
saveShippingZoneRates(reachable, rates, plan) ==
    fetchApi(reachable, SrvSaveShippingZoneResponse(plan, rates))

\* loadData(), up to its await
loadData(page) ==
    /\ ratesPage' = [page EXCEPT !.loading = TRUE, !.error = NoError]
    /\ rateCalls' = rateCalls \cup {RateCall("load", page.rateType, <<>>)}

\* the rate plan select; the effect on [selectedTable, rateType] loads
setRateType(plan) ==
    /\ plan # ratesPage.rateType
    /\ Cardinality(rateCalls) < MaxRateCalls
    /\ loadData([ratesPage EXCEPT !.rateType = plan])
    /\ UNCHANGED <<srvZoneRates, srvStats, engineLog, srvInvoices, editsLeft, faultsLeft>>

\* loadData(), from its await to its end
AfterLoadData(c, reachable) ==
    /\ c \in rateCalls /\ c.op = "load"
    /\ LET data == getShippingZoneRates(reachable, c.rateType)
       IN ratesPage' = IF data.threw
                       THEN [ratesPage EXCEPT !.error = data.message, !.loading = FALSE]
                       ELSE [ratesPage EXCEPT !.shippingZoneData = data.data,
                                              !.loading = FALSE]
    /\ rateCalls' = rateCalls \ {c}
    /\ UNCHANGED <<srvZoneRates, srvStats, engineLog, srvInvoices, editsLeft>>

ReceiveRates(c) == AfterLoadData(c, TRUE) /\ UNCHANGED faultsLeft

\* updateShippingZone(index, field, value); the table is rendered while
\* the page is not loading
updateShippingZone(index, field, value) ==
    /\ ~ratesPage.loading
    /\ index \in 1..Len(ratesPage.shippingZoneData)
    /\ editsLeft > 0
    /\ editsLeft' = editsLeft - 1
    /\ LET old == ratesPage.shippingZoneData[index]
           new == CASE field = "len_min_cm" -> [old EXCEPT !.len_min_cm = ParseIntOrZero(value)]
                    [] field = "len_max_cm" -> [old EXCEPT !.len_max_cm = ParseIntOrZero(value)]
                    [] field = "yogeum"     -> [old EXCEPT !.yogeum = ParseIntOrZero(value)]
                    [] field = "yogeumje"   -> [old EXCEPT !.yogeumje = value]
                    [] field = "gugan"      -> [old EXCEPT !.gugan = value]
       IN ratesPage' = [ratesPage EXCEPT !.shippingZoneData[index] = new]
    /\ UNCHANGED <<srvZoneRates, rateCalls, srvStats, engineLog, srvInvoices, faultsLeft>>

\* the tables a CSV file can hold for the plan: one band, and two bands
\* with a gap between them
CsvFiles(plan) ==
    { <<ShippingZoneRate(plan, "z1", 0, MaxLength, 1)>>,
      <<ShippingZoneRate(plan, "z1", 0, 1, 1), ShippingZoneRate(plan, "z2", 2, MaxLength, 2)>> }

\* handleFileUpload(e), reader.onload with a file that has data lines
handleFileUpload(data) ==
    /\ ~ratesPage.loading
    /\ editsLeft > 0
    /\ editsLeft' = editsLeft - 1
    /\ ratesPage' = [ratesPage EXCEPT !.shippingZoneData = data,
                                      !.success = "file loaded"]
    /\ UNCHANGED <<srvZoneRates, rateCalls, srvStats, engineLog, srvInvoices, faultsLeft>>

\* handleSave() of the rates page, up to its await; the button is rendered
\* while the page is not loading and disabled while a save runs
handleSaveRates ==
    /\ ~ratesPage.loading
    /\ ~ratesPage.saving
    /\ Cardinality(rateCalls) < MaxRateCalls
    /\ ratesPage' = [ratesPage EXCEPT !.saving = TRUE, !.error = NoError, !.success = ""]
    /\ rateCalls' = rateCalls \cup
          {RateCall("save", ratesPage.rateType, ratesPage.shippingZoneData)}
    /\ UNCHANGED <<srvZoneRates, srvStats, engineLog, srvInvoices, editsLeft, faultsLeft>>

\* handleSave() of the rates page, from its await to its end
AfterSaveRates(c, reachable) ==
    /\ c \in rateCalls /\ c.op = "save"
    /\ LET data == saveShippingZoneRates(reachable, c.rates, c.rateType)
           stored == IF reachable
                     THEN SrvSaveShippingZoneStore(srvZoneRates, c.rateType, c.rates)
                     ELSE srvZoneRates
       IN /\ srvZoneRates' = stored
          /\ srvInvoices' = IF stored # srvZoneRates
                            THEN SrvInvoicesAfterRateChange(srvInvoices, stored)
                            ELSE srvInvoices
          /\ ratesPage' = IF data.threw
                          THEN [ratesPage EXCEPT !.error = data.message, !.saving = FALSE]
                          ELSE [ratesPage EXCEPT !.success = "saved", !.saving = FALSE]
    /\ rateCalls' = rateCalls \ {c}
    /\ UNCHANGED <<srvStats, engineLog, editsLeft>>

ReceiveSaveRates(c) == AfterSaveRates(c, TRUE) /\ UNCHANGED faultsLeft

\* ------------------------------------- courier-fee stage (backend engine)
\* The stage of the engine that prices the shipping-stat rows by zone,
\* modelled from its specified behaviour.
RateNotFound == [ok |-> FALSE, gugan |-> "", yogeum |-> 0]

\* mutant: a band holds its upper end as well
SrvBandHoldsClosed(row, lengthCm) ==
    row.len_min_cm <= lengthCm /\ lengthCm <= row.len_max_cm

\* lengthCm lies in the band [len_min_cm, len_max_cm)
SrvBandHolds(row, lengthCm) ==
    row.len_min_cm <= lengthCm /\ lengthCm < row.len_max_cm

\* the lookup in the rows of one plan, in table order
RECURSIVE SrvFindBand(_, _)
SrvFindBand(rows, lengthCm) ==
    IF rows = <<>> THEN RateNotFound
    ELSE IF SrvBandHolds(Head(rows), lengthCm)
         THEN [ok |-> TRUE, gugan |-> Head(rows).gugan, yogeum |-> Head(rows).yogeum]
         ELSE SrvFindBand(Tail(rows), lengthCm)

\* shippingZonePrice(ratePlan, lengthCm) against the table rates
shippingZonePrice(rates, ratePlan, lengthCm) == SrvFindBand(rates[ratePlan], lengthCm)

\* the number of rows of the stage that the lookup puts into the band
RECURSIVE SrvCountInZone(_, _, _)
SrvCountInZone(rows, lengths, zone) ==
    IF lengths = <<>> THEN 0
    ELSE LET found == SrvFindBand(rows, Head(lengths))
         IN (IF found.ok /\ found.gugan = zone THEN 1 ELSE 0)
            + SrvCountInZone(rows, Tail(lengths), zone)

\* mutant: rows without a band are dropped without being counted
SrvUnmatchedIgnored(rows, lengths) == 0

\* the number of rows of the stage for which the lookup fails
RECURSIVE SrvUnmatched(_, _)
SrvUnmatched(rows, lengths) ==
    IF lengths = <<>> THEN 0
    ELSE (IF SrvFindBand(rows, Head(lengths)).ok THEN 0 ELSE 1)
         + SrvUnmatched(rows, Tail(lengths))

\* one item per zone that has rows, in table order; bands that carry the
\* label of an earlier band belong to that band's zone
RECURSIVE SrvZoneItems(_, _, _, _)
SrvZoneItems(rows, bands, lengths, seen) ==
    IF bands = <<>> THEN <<>>
    ELSE LET zone == Head(bands).gugan
             count == SrvCountInZone(rows, lengths, zone)
             item == Item(zone, count, Head(bands).yogeum, count * Head(bands).yogeum, "")
         IN (IF count > 0 /\ zone \notin seen THEN <<item>> ELSE <<>>)
            \o SrvZoneItems(rows, Tail(bands), lengths, seen \cup {zone})

\* the courier-fee stage for a vendor of the plan: its items and its
\* unmatched-zone counter
SrvCourierFee(rates, ratePlan, lengths) ==
    [items |-> SrvZoneItems(rates[ratePlan], rates[ratePlan], lengths, {}),
     unmatched |-> SrvUnmatched(rates[ratePlan], lengths)]

\* what a calculation is asked for: the vendor's rate plan and the
\* include flag of the stage
CourierParams(plan, include) == [rateType |-> plan, include_courier_fee |-> include]

\* mutant: every calculation adds a line that numbers the invoice
SrvCalculateCourierNumbered(rates, lengths, params) ==
    LET courier == IF params.include_courier_fee
                   THEN SrvCourierFee(rates, params.rateType, lengths)
                   ELSE [items |-> <<>>, unmatched |-> 0]
        items == courier.items \o <<Item("charges", 1 + Len(engineLog), 1, 1 + Len(engineLog), "")>>
    IN [items |-> items, total_amount |-> SrvTotal(items), courier |-> courier]

\* calculateInvoice for a vendor whose only source rows are shipping-stat
\* rows: the courier-fee stage if enabled, then the ungated charges
SrvCalculateCourier(rates, lengths, params) ==
    LET courier == IF params.include_courier_fee
                   THEN SrvCourierFee(rates, params.rateType, lengths)
                   ELSE [items |-> <<>>, unmatched |-> 0]
        items == courier.items \o SrvCharges
    IN [items |-> items, total_amount |-> SrvTotal(items), courier |-> courier]

\* one answered calculation: what it was asked, the data it read, what it
\* returned, and the id of the invoice it stored
EngineEntry(params, rates, lengths, data, id) ==
    [params |-> params, rates |-> rates, lengths |-> lengths, data |-> data,
     invoice_id |-> id]

\* POST /calculate is answered: the invoice is stored under the next id
SrvGenerateInvoice(params) ==
    /\ Len(engineLog) < MaxEngineCalls
    /\ LET data == SrvCalculateCourier(srvZoneRates, srvStats, params)
           id == Len(engineLog) + 1
       IN /\ engineLog' = Append(engineLog, EngineEntry(params, srvZoneRates, srvStats, data, id))
          /\ srvInvoices' = [i \in DOMAIN srvInvoices \cup {id} |->
                               IF i = id THEN SrvNewInvoice(data.items) ELSE srvInvoices[i]]
    /\ UNCHANGED <<srvZoneRates, ratesPage, rateCalls, srvStats, editsLeft, faultsLeft>>

\* ------------------------------------------------------ InvoicePage handlers
VendorNames(list) == [k \in 1..Len(list) |-> list[k].vendor]

Includes(list, x) == \E k \in 1..Len(list) : list[k] = x

\* filteredVendors, for a given showMode
filteredVendorsFor(m) ==
    LET shown(v) == IF m = "active" THEN v.active = "YES"
                    ELSE IF m = "inactive" THEN v.active # "YES"
                    ELSE TRUE
    IN SelectSeq(vendors, shown)

filteredVendors == filteredVendorsFor(showMode)

\* the select box, and the effect that follows a change of showMode
setShowMode(m) ==
    /\ mode = "batch"
    /\ m # showMode
    /\ showMode' = m
    /\ selectedVendors' = VendorNames(filteredVendorsFor(m))
    /\ UNCHANGED <<invoiceVars, mappingVars, otherPageVars, srvVendors, srvStages, vendors, includeOptions,
                   mode, singleVendor, calcLoading, result, batchLogs,
                   batchProgress, isBatchRunning, stopRequested, calcError,
                   batch, single, deletesLeft>>

handleSelectAll ==
    /\ mode = "batch"
    /\ selectedVendors' = IF Len(selectedVendors) = Len(filteredVendors)
                          THEN <<>>
                          ELSE VendorNames(filteredVendors)
    /\ UNCHANGED <<invoiceVars, mappingVars, otherPageVars, srvVendors, srvStages, vendors, showMode,
                   includeOptions, mode, singleVendor, calcLoading, result,
                   batchLogs, batchProgress, isBatchRunning, stopRequested,
                   calcError, batch, single, deletesLeft>>

handleToggleVendor(vendor) ==
    /\ mode = "batch"
    /\ Includes(VendorNames(filteredVendors), vendor)
    /\ selectedVendors' =
          IF Includes(selectedVendors, vendor)
          THEN LET other(v) == v # vendor IN SelectSeq(selectedVendors, other)
          ELSE Append(selectedVendors, vendor)
    /\ UNCHANGED <<invoiceVars, mappingVars, otherPageVars, srvVendors, srvStages, vendors, showMode,
                   includeOptions, mode, singleVendor, calcLoading, result,
                   batchLogs, batchProgress, isBatchRunning, stopRequested,
                   calcError, batch, single, deletesLeft>>

setMode(m) ==
    /\ m # mode
    /\ mode' = m
    /\ UNCHANGED <<invoiceVars, mappingVars, otherPageVars, srvVendors, srvStages, vendors, showMode,
                   selectedVendors, includeOptions, singleVendor, calcLoading,
                   result, batchLogs, batchProgress, isBatchRunning,
                   stopRequested, calcError, batch, single, deletesLeft>>

\* the values typed into the date inputs
DateInputs == {"2024-02-01", "2024-03-01", "2024-03-15"}

\* the start-date input
setDateFrom(d) ==
    /\ editsLeft > 0
    /\ d # dateFrom
    /\ editsLeft' = editsLeft - 1
    /\ dateFrom' = d
    /\ UNCHANGED <<calcVars, mappingVars, selectionVars, rateVars, chargeVars, sessionVars,
                   filterVars, dateTo, srvInvoices, invoices, loading, error,
                   detailInvoice, loadingDetail, isEditing, editItems, saving,
                   calls, faultsLeft>>

\* the end-date input
setDateTo(d) ==
    /\ editsLeft > 0
    /\ d # dateTo
    /\ editsLeft' = editsLeft - 1
    /\ dateTo' = d
    /\ UNCHANGED <<calcVars, mappingVars, selectionVars, rateVars, chargeVars, sessionVars,
                   filterVars, dateFrom, srvInvoices, invoices, loading, error,
                   detailInvoice, loadingDetail, isEditing, editItems, saving,
                   calls, faultsLeft>>

\* one of the five include checkboxes
setInclude(s) ==
    /\ editsLeft > 0
    /\ editsLeft' = editsLeft - 1
    /\ includeOptions' = [includeOptions EXCEPT ![s] = ~includeOptions[s]]
    /\ UNCHANGED <<mappingVars, otherPageVars, srvInvoices, invoices, loading, error, detailInvoice,
                   loadingDetail, isEditing, editItems, saving, calls,
                   faultsLeft, srvVendors, srvStages, vendors, showMode,
                   selectedVendors, mode, singleVendor, calcLoading, result,
                   batchLogs, batchProgress, isBatchRunning, stopRequested,
                   calcError, batch, single, deletesLeft>>

\* String.prototype.trim on a text given as its characters
RECURSIVE TrimStart(_)
TrimStart(text) ==
    IF Len(text) > 0 /\ text[1] = " " THEN TrimStart(Tail(text)) ELSE text

RECURSIVE TrimEnd(_)
TrimEnd(text) ==
    IF Len(text) > 0 /\ text[Len(text)] = " "
    THEN TrimEnd(SubSeq(text, 1, Len(text) - 1))
    ELSE text

Trim(text) == TrimEnd(TrimStart(text))

\* what the user may type into the vendor field
VendorInputs == {<<>>, <<" ">>, <<"A">>, <<" ", "A">>, <<"Z">>}

NoResult == [success |-> FALSE, vendor |-> <<>>, items |-> <<>>,
             total_amount |-> 0, warnings |-> <<>>]

NoSingle == [pending |-> FALSE, params |-> <<>>]

setSingleVendor(text) ==
    /\ mode = "single"
    /\ text # singleVendor
    /\ singleVendor' = text
    /\ UNCHANGED <<invoiceVars, mappingVars, otherPageVars, srvVendors, srvStages, vendors, showMode,
                   selectedVendors, includeOptions, mode, calcLoading, result,
                   batchLogs, batchProgress, isBatchRunning, stopRequested,
                   calcError, batch, single, deletesLeft>>

\* handleSingleCalculate(), up to its await; the button is disabled while
\* loading and while the field is empty
handleSingleCalculate ==
    /\ mode = "single"
    /\ ~calcLoading
    /\ singleVendor # <<>>
    /\ IF Trim(singleVendor) = <<>>
       THEN /\ calcError' = "enter the vendor name"
            /\ UNCHANGED <<calcLoading, result, single>>
       ELSE /\ calcLoading' = TRUE
            /\ calcError' = NoError
            /\ result' = NoResult
            /\ single' = [pending |-> TRUE,
                          params |-> CalculateParams(Trim(singleVendor), dateFrom, dateTo, includeOptions)]
    /\ UNCHANGED <<invoiceVars, mappingVars, otherPageVars, srvVendors, srvStages, vendors, showMode,
                   selectedVendors, includeOptions, mode, singleVendor,
                   batchLogs, batchProgress, isBatchRunning, stopRequested,
                   batch, deletesLeft>>

\* handleSingleCalculate(), from its await to its end
AfterSingleCalculate(reachable) ==
    /\ single.pending
    /\ LET data == calculateInvoice(reachable, single.params)
       IN IF data.threw
          THEN calcError' = data.message /\ UNCHANGED result
          ELSE result' = data.data /\ UNCHANGED calcError
    /\ calcLoading' = FALSE
    /\ single' = NoSingle
    /\ UNCHANGED <<mappingVars, otherPageVars, srvInvoices, invoices, loading, error, detailInvoice,
                   loadingDetail, isEditing, editItems, saving, calls, editsLeft,
                   srvVendors, srvStages, vendors, showMode, selectedVendors,
                   includeOptions, mode, singleVendor, batchLogs, batchProgress,
                   isBatchRunning, stopRequested, batch, deletesLeft>>

ReceiveSingleCalculate == AfterSingleCalculate(TRUE) /\ UNCHANGED faultsLeft

FailSingleCalculate == Fault /\ AfterSingleCalculate(FALSE)

\* ---- batch
Message(text, amount) == [text |-> text, amount |-> amount]

BatchLog(vendor, status, message, duration) ==
    [vendor |-> vendor, status |-> status, message |-> message, duration |-> duration]

PendingLogs(names) ==
    [k \in 1..Len(names) |-> BatchLog(names[k], "pending", Message("waiting", 0), <<>>)]

\* no request of a batch is in flight
NoRequest == CalculateParams(<<>>, "", "", <<>>)

\* the request of iteration i of a batch: the handler reads vendor list,
\* dates and options from the variables it closed over
BatchRequest(i, run) ==
    CalculateParams(run.selectedVendors[i], run.dateFrom, run.dateTo, run.includeOptions)

NoBatch == [pc |-> "idle", i |-> 0, logs |-> <<>>, selectedVendors |-> <<>>,
            stopRequested |-> FALSE, includeOptions |-> <<>>,
            dateFrom |-> "", dateTo |-> "", request |-> NoRequest]

\* mutant: a failed calculation records no elapsed time
CompletedLogUntimed(vendor, data, duration) ==
    IF data.threw
    THEN BatchLog(vendor, "error", Message(data.message, 0), <<>>)
    ELSE BatchLog(vendor, "success", Message("done", data.data.total_amount), <<duration>>)

\* the log entry of a calculation that came back
CompletedLog(vendor, data, duration) ==
    IF data.threw
    THEN BatchLog(vendor, "error", Message(data.message, 0), <<duration>>)
    ELSE BatchLog(vendor, "success", Message("done", data.data.total_amount), <<duration>>)

\* mutant: the loop starts the next vendor together with the current one
BatchLoopEager(logs, i, run) ==
    IF i > Len(run.selectedVendors)
    THEN /\ batchLogs' = logs
         /\ isBatchRunning' = FALSE
         /\ batch' = NoBatch
    ELSE LET started == [k \in 1..Len(logs) |->
                            IF k \in {i, i + 1}
                            THEN [logs[k] EXCEPT !.status = "processing",
                                                 !.message = Message("processing", 0)]
                            ELSE logs[k]]
         IN /\ batchLogs' = started
            /\ isBatchRunning' = TRUE
            /\ batch' = [run EXCEPT !.pc = "await", !.i = i, !.logs = started,
                                    !.request = BatchRequest(i, run)]

\* mutant: the handler ends without setIsBatchRunning(false)
BatchLoopUnending(logs, i, run) ==
    IF i > Len(run.selectedVendors)
    THEN /\ batchLogs' = logs
         /\ isBatchRunning' = TRUE
         /\ batch' = NoBatch
    ELSE LET started == [logs EXCEPT ![i].status = "processing",
                                     ![i].message = Message("processing", 0)]
         IN /\ batchLogs' = started
            /\ isBatchRunning' = TRUE
            /\ batch' = [run EXCEPT !.pc = "await", !.i = i, !.logs = started,
                                    !.request = BatchRequest(i, run)]

\* The for loop of handleBatchCalculate from the head of iteration i to the
\* next await or to the end of the handler.  run holds the values the
\* invocation closed over; logs is its local array.
BatchLoop(logs, i, run) ==
    IF i > Len(run.selectedVendors)
    THEN /\ batchLogs' = logs
         /\ isBatchRunning' = FALSE
         /\ batch' = NoBatch
    ELSE IF run.stopRequested
    THEN /\ batchLogs' = [logs EXCEPT ![i].status = "error",
                                      ![i].message = Message("stopped by user", 0)]
         /\ isBatchRunning' = FALSE
         /\ batch' = NoBatch
    ELSE LET started == [logs EXCEPT ![i].status = "processing",
                                     ![i].message = Message("processing", 0)]
         IN /\ batchLogs' = started
            /\ isBatchRunning' = TRUE
            /\ batch' = [run EXCEPT !.pc = "await", !.i = i, !.logs = started,
                                    !.request = BatchRequest(i, run)]

\* handleBatchCalculate(), up to its first await; the start button is shown
\* only while no batch runs and is disabled while nothing is selected
handleBatchCalculate ==
    /\ mode = "batch"
    /\ ~isBatchRunning
    /\ Len(selectedVendors) # 0
    /\ stopRequested' = FALSE
    /\ batchProgress' = 0
    /\ calcError' = NoError
    /\ BatchLoop(PendingLogs(selectedVendors), 1,
                 [NoBatch EXCEPT !.selectedVendors = selectedVendors,
                                 !.stopRequested = stopRequested,
                                 !.includeOptions = includeOptions,
                                 !.dateFrom = dateFrom,
                                 !.dateTo = dateTo])
    /\ UNCHANGED <<invoiceVars, mappingVars, otherPageVars, srvVendors, srvStages, vendors, showMode,
                   selectedVendors, includeOptions, mode, singleVendor,
                   calcLoading, result, single, deletesLeft>>

\* mutant: a calculation that throws ends the batch
AfterBatchCalculateHalting(reachable, duration) ==
    /\ batch.pc = "await"
    /\ LET vendor == batch.selectedVendors[batch.i]
           data == calculateInvoice(reachable, batch.request)
           logs == [batch.logs EXCEPT ![batch.i] = CompletedLog(vendor, data, duration)]
       IN /\ batchProgress' = (batch.i * 100) \div Len(batch.selectedVendors)
          /\ IF data.threw
             THEN batchLogs' = logs /\ isBatchRunning' = FALSE /\ batch' = NoBatch
             ELSE BatchLoop(logs, batch.i + 1, batch)
    /\ UNCHANGED <<mappingVars, otherPageVars, srvInvoices, invoices, loading, error, detailInvoice,
                   loadingDetail, isEditing, editItems, saving, calls, editsLeft,
                   srvVendors, srvStages, vendors, showMode, selectedVendors,
                   includeOptions, mode, singleVendor, calcLoading, result,
                   stopRequested, calcError, single, deletesLeft>>

\* mutant: the loop reads the vendor list, the dates and the options of the
\* page as they are when the response arrives
AfterBatchCalculateLive(reachable, duration) ==
    /\ batch.pc = "await"
    /\ LET vendor == batch.selectedVendors[batch.i]
           data == calculateInvoice(reachable, batch.request)
           logs == [batch.logs EXCEPT ![batch.i] = CompletedLog(vendor, data, duration)]
       IN /\ batchProgress' = (batch.i * 100) \div Len(batch.selectedVendors)
          /\ BatchLoop(logs, batch.i + 1,
                       [batch EXCEPT !.includeOptions = includeOptions,
                                     !.dateFrom = dateFrom, !.dateTo = dateTo])
    /\ UNCHANGED <<mappingVars, otherPageVars, srvInvoices, invoices, loading, error, detailInvoice,
                   loadingDetail, isEditing, editItems, saving, calls, editsLeft,
                   srvVendors, srvStages, vendors, showMode, selectedVendors,
                   includeOptions, mode, singleVendor, calcLoading, result,
                   stopRequested, calcError, single, deletesLeft>>

\* handleBatchCalculate(), from the await of iteration i to the next await
\* or to the end of the handler
AfterBatchCalculate(reachable, duration) ==
    /\ batch.pc = "await"
    /\ LET vendor == batch.selectedVendors[batch.i]
           data == calculateInvoice(reachable, batch.request)
           logs == [batch.logs EXCEPT ![batch.i] = CompletedLog(vendor, data, duration)]
       IN /\ batchProgress' = (batch.i * 100) \div Len(batch.selectedVendors)
          /\ BatchLoop(logs, batch.i + 1, batch)
    /\ UNCHANGED <<mappingVars, otherPageVars, srvInvoices, invoices, loading, error, detailInvoice,
                   loadingDetail, isEditing, editItems, saving, calls, editsLeft,
                   srvVendors, srvStages, vendors, showMode, selectedVendors,
                   includeOptions, mode, singleVendor, calcLoading, result,
                   stopRequested, calcError, single, deletesLeft>>

ReceiveBatchCalculate(duration) == AfterBatchCalculate(TRUE, duration) /\ UNCHANGED faultsLeft

FailBatchCalculate(duration) == Fault /\ AfterBatchCalculate(FALSE, duration)

\* the stop button is shown only while a batch runs
handleStopBatch ==
    /\ mode = "batch"
    /\ isBatchRunning
    /\ stopRequested' = TRUE
    /\ UNCHANGED <<invoiceVars, mappingVars, otherPageVars, srvVendors, srvStages, vendors, showMode,
                   selectedVendors, includeOptions, mode, singleVendor,
                   calcLoading, result, batchLogs, batchProgress,
                   isBatchRunning, calcError, batch, single, deletesLeft>>

AllOptions == [s \in StageSet |-> TRUE]

AllStagesOk == [s \in StageSet |-> "ok"]

\* ------------------------------------------------ vendor registry (backend)
\* Modelled from the specified behaviour of the registry: an alias belongs
\* to at most one vendor per source type, and a save that would break this
\* is refused as a whole.
FILE_TYPES == <<"inbound_slip", "shipping_stats", "kpost_in", "kpost_ret", "work_log">>

FileTypeSet == {FILE_TYPES[k] : k \in 1..Len(FILE_TYPES)}

\* the names found in the uploaded files of each source type
SrvUploadedNames ==
    [t \in FileTypeSet |-> IF t = "inbound_slip" THEN {"a1", "a2"}
                           ELSE IF t = "shipping_stats" THEN {"a1"}
                           ELSE {}]

NoAliases == [t \in FileTypeSet |-> {}]

SrvInitialRegistry ==
    (<<"A">> :> [name |-> <<"a">>, alias |-> [NoAliases EXCEPT !["inbound_slip"] = {"a1"}]])
    @@ (<<"B">> :> [name |-> <<"b">>, alias |-> NoAliases])
    @@ (<<"C">> :> [name |-> <<"c">>, alias |-> NoAliases])

\* the aliases of type t that vendors other than v own
SrvOwnedByOthers(registry, v, t) ==
    UNION {registry[w].alias[t] : w \in DOMAIN registry \ {v}}

\* GET /vendors/aliases/available/{type}
SrvAvailableAliases(registry, t) ==
    SrvUploadedNames[t] \ UNION {registry[w].alias[t] : w \in DOMAIN registry}

\* GET /vendors/aliases/for-vendor/{vendor}/{type}
SrvAliasesForVendor(registry, v, t) ==
    [mapped |-> IF v \in DOMAIN registry THEN registry[v].alias[t] ELSE {},
     available |-> SrvAvailableAliases(registry, t)]

\* GET /vendors/{vendor}
SrvGetVendor(registry, v) ==
    IF v \in DOMAIN registry
    THEN [ok |-> TRUE, text |-> "",
          json |-> [vendor |-> v, name |-> registry[v].name, alias |-> registry[v].alias]]
    ELSE [ok |-> FALSE, text |-> "VendorNotFound", json |-> <<>>]

SrvConflicts(registry, data) ==
    \E t \in FileTypeSet : data.alias[t] \cap SrvOwnedByOthers(registry, data.vendor, t) # {}

\* mutant: the registry accepts a save without looking for conflicts
SrvSaveVendorResponseUnchecked(registry, data) ==
    [ok |-> TRUE, text |-> "",
     json |-> [status |-> "ok",
               action |-> IF data.vendor \in DOMAIN registry THEN "updated" ELSE "created",
               vendor |-> data.vendor]]

\* POST /vendors, the response
SrvSaveVendorResponse(registry, data) ==
    IF SrvConflicts(registry, data)
    THEN [ok |-> FALSE, text |-> "AliasConflict", json |-> <<>>]
    ELSE [ok |-> TRUE, text |-> "",
          json |-> [status |-> "ok",
                    action |-> IF data.vendor \in DOMAIN registry THEN "updated" ELSE "created",
                    vendor |-> data.vendor]]

\* POST /vendors, the registry afterwards
SrvSaveVendorStore(registry, data) ==
    IF SrvSaveVendorResponse(registry, data).ok
    THEN [v \in DOMAIN registry \cup {data.vendor} |->
             IF v = data.vendor THEN [name |-> data.name, alias |-> data.alias]
             ELSE registry[v]]
    ELSE registry

\* ------------------------------------------------------ MappingPage handlers
NoPayload == [vendor |-> <<>>, name |-> <<>>, alias |-> NoAliases]

NoAliasOptions == [loaded |-> FALSE,
                   byType |-> [t \in FileTypeSet |-> [mapped |-> {}, available |-> {}]]]

MapCall(session, op, vendorId, data) ==
    [session |-> session, op |-> op, vendorId |-> vendorId, data |-> data]

\* resetForm()
resetForm(page) ==
    [page EXCEPT !.selectedVendorId = <<>>, !.vendorPk = <<>>, !.name = <<>>,
                 !.alias = NoAliases, !.editAliasOptions = NoAliasOptions,
                 !.isEditMode = FALSE]

\* getAliasOptionsForType(fileType)
getAliasOptionsForType(page, fileType) ==
    IF page.isEditMode /\ page.editAliasOptions.loaded
    THEN page.editAliasOptions.byType[fileType].available
    ELSE page.available[fileType]

\* the options a MultiSelect lists
MultiSelectOptions(page, fileType) ==
    page.alias[fileType] \cup getAliasOptionsForType(page, fileType)

MappingUntouched ==
    UNCHANGED <<otherPageVars, srvInvoices, invoices, loading, error, detailInvoice,
                loadingDetail, isEditing, editItems, saving, calls,
                srvStages, vendors, showMode, selectedVendors, includeOptions,
                mode, singleVendor, calcLoading, result, batchLogs,
                batchProgress, isBatchRunning, stopRequested, calcError, batch,
                single, deletesLeft>>

\* the select box of the vendor card
handleSelectVendor(s, vendorId) ==
    /\ vendorId # pages[s].selectedVendorId
    /\ vendorId \in pages[s].vendors \cup {<<>>}
    /\ IF vendorId = <<>>
       THEN /\ pages' = [pages EXCEPT ![s] = resetForm(pages[s])]
            /\ UNCHANGED mapCalls
       ELSE /\ Cardinality({c \in mapCalls : c.session = s /\ c.op \in {"detail", "options"}})
                 < MaxSelectCalls
            /\ pages' = [pages EXCEPT ![s].loading = TRUE,
                                      ![s].selectedVendorId = vendorId,
                                      ![s].isEditMode = TRUE]
            /\ mapCalls' = mapCalls \cup {MapCall(s, "detail", vendorId, NoPayload)}
    /\ editsLeft > 0
    /\ editsLeft' = editsLeft - 1
    /\ UNCHANGED <<srvRegistry, srvVendors, faultsLeft>>
    /\ MappingUntouched

\* handleSelectVendor, from getVendor to the alias requests
ReceiveVendorDetail(c) ==
    /\ c.op = "detail"
    /\ LET s == c.session
           data == fetchApi(TRUE, SrvGetVendor(srvRegistry, c.vendorId))
       IN IF data.threw
          THEN /\ pages' = [pages EXCEPT ![s].error = data.message, ![s].loading = FALSE]
               /\ mapCalls' = mapCalls \ {c}
          ELSE /\ pages' = [pages EXCEPT ![s].vendorPk = data.data.vendor,
                                         ![s].name = data.data.name,
                                         ![s].alias = data.data.alias]
               /\ mapCalls' = (mapCalls \ {c}) \cup {MapCall(s, "options", c.vendorId, NoPayload)}
    /\ UNCHANGED <<srvRegistry, srvVendors, editsLeft, faultsLeft>>
    /\ MappingUntouched

\* handleSelectVendor, from the alias requests to its end
ReceiveAliasOptions(c) ==
    /\ c.op = "options"
    /\ LET s == c.session
           options == [t \in FileTypeSet |-> SrvAliasesForVendor(srvRegistry, c.vendorId, t)]
       IN pages' = [pages EXCEPT ![s].editAliasOptions = [loaded |-> TRUE, byType |-> options],
                                 ![s].loading = FALSE]
    /\ mapCalls' = mapCalls \ {c}
    /\ UNCHANGED <<srvRegistry, srvVendors, editsLeft, faultsLeft>>
    /\ MappingUntouched

\* handleSelectVendor, a request that fails on the network
FailSelectVendor(c) ==
    /\ c.op \in {"detail", "options"}
    /\ Fault
    /\ pages' = [pages EXCEPT ![c.session].error = ConnectError,
                              ![c.session].loading = FALSE]
    /\ mapCalls' = mapCalls \ {c}
    /\ UNCHANGED <<srvRegistry, srvVendors, editsLeft>>
    /\ MappingUntouched

\* the button that switches back to registration
ClickResetForm(s) ==
    /\ pages[s].isEditMode
    /\ editsLeft > 0
    /\ editsLeft' = editsLeft - 1
    /\ pages' = [pages EXCEPT ![s] = resetForm(pages[s])]
    /\ UNCHANGED <<srvRegistry, srvVendors, mapCalls, faultsLeft>>
    /\ MappingUntouched

\* the form is rendered only while nothing loads
FormShown(s) == ~pages[s].loading

\* MultiSelect.toggleOption
toggleOption(s, fileType, opt) ==
    /\ FormShown(s)
    /\ opt \in MultiSelectOptions(pages[s], fileType)
    /\ editsLeft > 0
    /\ editsLeft' = editsLeft - 1
    /\ pages' = [pages EXCEPT ![s].alias[fileType] =
                     IF opt \in @ THEN @ \ {opt} ELSE @ \cup {opt}]
    /\ UNCHANGED <<srvRegistry, srvVendors, mapCalls, faultsLeft>>
    /\ MappingUntouched

setVendorPk(s, text) ==
    /\ FormShown(s)
    /\ ~pages[s].isEditMode
    /\ text # pages[s].vendorPk
    /\ editsLeft > 0
    /\ editsLeft' = editsLeft - 1
    /\ pages' = [pages EXCEPT ![s].vendorPk = text]
    /\ UNCHANGED <<srvRegistry, srvVendors, mapCalls, faultsLeft>>
    /\ MappingUntouched

setName(s, text) ==
    /\ FormShown(s)
    /\ text # pages[s].name
    /\ editsLeft > 0
    /\ editsLeft' = editsLeft - 1
    /\ pages' = [pages EXCEPT ![s].name = text]
    /\ UNCHANGED <<srvRegistry, srvVendors, mapCalls, faultsLeft>>
    /\ MappingUntouched

\* mutant: the save comes back accepted whatever it asked for
saveVendorUnchecked(reachable, data) ==
    fetchApi(reachable, SrvSaveVendorResponseUnchecked(srvRegistry, data))

\* saveVendor(data), as completed against the backend
saveVendor(reachable, data) ==
    fetchApi(reachable, SrvSaveVendorResponse(srvRegistry, data))

\* loadAvailableAliases(), up to its await
loadAvailableAliases(page) == [page EXCEPT !.loading = TRUE]

\* handleSave(), up to its await; the button is disabled while saving
handleSaveVendor(s) ==
    /\ FormShown(s)
    /\ ~pages[s].saving
    /\ IF Trim(pages[s].vendorPk) = <<>>
       THEN /\ pages' = [pages EXCEPT ![s].error = "enter the vendor key"]
            /\ UNCHANGED mapCalls
       ELSE IF Trim(pages[s].name) = <<>>
       THEN /\ pages' = [pages EXCEPT ![s].error = "enter the vendor name"]
            /\ UNCHANGED mapCalls
       ELSE /\ pages' = [pages EXCEPT ![s].saving = TRUE,
                                      ![s].error = NoError,
                                      ![s].success = ""]
            /\ mapCalls' = mapCalls \cup
                  {MapCall(s, "save", <<>>,
                           [vendor |-> Trim(pages[s].vendorPk),
                            name |-> Trim(pages[s].name),
                            alias |-> pages[s].alias])}
    /\ UNCHANGED <<srvRegistry, srvVendors, editsLeft, faultsLeft>>
    /\ MappingUntouched

\* handleSave(), from its await to its end
AfterSaveVendor(c, reachable) ==
    /\ c.op = "save"
    /\ LET s == c.session
           data == saveVendor(reachable, c.data)
       IN IF data.threw
          THEN /\ pages' = [pages EXCEPT ![s].error = data.message, ![s].saving = FALSE]
               /\ mapCalls' = mapCalls \ {c}
               /\ UNCHANGED <<srvRegistry, srvVendors>>
          ELSE /\ srvRegistry' = SrvSaveVendorStore(srvRegistry, c.data)
               /\ srvVendors' = DOMAIN srvRegistry'
               /\ pages' = [pages EXCEPT ![s] =
                     [loadAvailableAliases(resetForm(pages[s]))
                        EXCEPT !.success = data.data.action, !.saving = FALSE]]
               /\ mapCalls' = (mapCalls \ {c}) \cup
                     {MapCall(s, "vendors", <<>>, NoPayload),
                      MapCall(s, "aliases", <<>>, NoPayload)}
    /\ UNCHANGED editsLeft
    /\ MappingUntouched

ReceiveSaveVendor(c) == AfterSaveVendor(c, TRUE) /\ UNCHANGED faultsLeft

FailSaveVendor(c) == Fault /\ AfterSaveVendor(c, FALSE)

\* loadVendors(), from its await to its end
ReceiveVendors(c) ==
    /\ c.op = "vendors"
    /\ pages' = [pages EXCEPT ![c.session].vendors = DOMAIN srvRegistry]
    /\ mapCalls' = mapCalls \ {c}
    /\ UNCHANGED <<srvRegistry, srvVendors, editsLeft, faultsLeft>>
    /\ MappingUntouched

\* loadAvailableAliases(), from its await to its end
ReceiveAvailableAliases(c) ==
    /\ c.op = "aliases"
    /\ pages' = [pages EXCEPT
          ![c.session].available = [t \in FileTypeSet |-> SrvAvailableAliases(srvRegistry, t)],
          ![c.session].loading = FALSE]
    /\ mapCalls' = mapCalls \ {c}
    /\ UNCHANGED <<srvRegistry, srvVendors, editsLeft, faultsLeft>>
    /\ MappingUntouched

\* loadVendors() or loadAvailableAliases(), a request that fails on the
\* network: the failure is only logged
FailReload(c) ==
    /\ c.op \in {"vendors", "aliases"}
    /\ Fault
    /\ pages' = [pages EXCEPT ![c.session].loading =
                     IF c.op = "aliases" THEN FALSE ELSE @]
    /\ mapCalls' = mapCalls \ {c}
    /\ UNCHANGED <<srvRegistry, srvVendors, editsLeft>>
    /\ MappingUntouched

\* a mapping page after its three initial loads have returned
MountedMappingPage(registry) ==
    [vendors |-> DOMAIN registry,
     selectedVendorId |-> <<>>,
     isEditMode |-> FALSE,
     vendorPk |-> <<>>,
     name |-> <<>>,
     alias |-> NoAliases,
     available |-> [t \in FileTypeSet |-> SrvAvailableAliases(registry, t)],
     editAliasOptions |-> NoAliasOptions,
     loading |-> FALSE,
     saving |-> FALSE,
     error |-> NoError,
     success |-> ""]

Sessions == 1..NumSessions

VendorPkInputs == {<<" ">>, <<"N">>, <<"A">>}

NameInputs == {<<"n">>}

\* the calculation page right after loadVendors() has returned
\* the date inputs as the page fills them in: the first day of the month
\* and today
DefaultPeriod == dateFrom = "2024-03-01" /\ dateTo = "2024-03-15"

CalcMounted ==
    /\ DefaultPeriod
    /\ vendors = SrvVendorList
    /\ showMode = "active"
    /\ selectedVendors = VendorNames(filteredVendors)
    /\ includeOptions = AllOptions
    /\ mode = "batch"
    /\ singleVendor = <<>>
    /\ calcLoading = FALSE
    /\ result = NoResult
    /\ batchLogs = <<>>
    /\ batchProgress = 0
    /\ isBatchRunning = FALSE
    /\ stopRequested = FALSE
    /\ calcError = NoError
    /\ batch = NoBatch
    /\ single = NoSingle
    /\ deletesLeft = MaxDeletes

\* the calculation page is not open
CalcIdle ==
    /\ DefaultPeriod
    /\ srvStages = AllStagesOk /\ vendors = <<>>
    /\ showMode = "active" /\ selectedVendors = <<>> /\ includeOptions = AllOptions
    /\ mode = "batch" /\ singleVendor = <<>> /\ calcLoading = FALSE
    /\ result = NoResult /\ batchLogs = <<>> /\ batchProgress = 0
    /\ isBatchRunning = FALSE /\ stopRequested = FALSE /\ calcError = NoError
    /\ batch = NoBatch /\ single = NoSingle /\ deletesLeft = 0

\* the mapping page is not open
MappingIdle ==
    /\ srvRegistry = SrvInitialRegistry
    /\ srvVendors = DOMAIN SrvInitialRegistry
    /\ pages = <<>>
    /\ mapCalls = {}

\* the vendor has one charge line in the period and no storage fee
DefaultCharges ==
    /\ srvVendorCharges = OneCharge
    /\ srvStorageFees = <<>>
    /\ stageRun = NoStageRun

\* the rates page is not open and no calculation has been asked for
RatesIdle ==
    /\ srvZoneRates = [p \in RatePlans |-> <<>>]
    /\ ratesPage = NoRatesPage
    /\ rateCalls = {}
    /\ srvStats = <<>>
    /\ engineLog = <<>>

\* a step that leaves the other pages alone
OtherPagesUntouched == UNCHANGED <<calcVars, mappingVars, rateVars, chargeVars, sessionVars, periodVars>>

\* a step of the invoice list page leaves the other pages and the filter
\* of the list alone
CalcPageUntouched == OtherPagesUntouched /\ UNCHANGED filterVars

\* a step that leaves the selection as it is
SelectionUntouched == UNCHANGED selectionVars

\* a session of InvoiceListPage without administrator rights in which
\* nothing is checked
NothingSelected ==
    /\ isAdmin = FALSE
    /\ selectedIds = <<>>
    /\ selectAll = FALSE
    /\ pageVersion = "editing"

InvoiceInit ==
    /\ SignedIn
    /\ DefaultCharges
    /\ RatesIdle
    /\ NothingSelected
    /\ CalcIdle
    /\ MappingIdle
    /\ srvInvoices = [id \in InvoiceIds |-> SrvNewInvoice(SrvCalculatedItems(id))]
    /\ invoices = <<>>
    /\ loading = TRUE
    /\ error = NoError
    /\ detailInvoice = NoDetail
    /\ loadingDetail = FALSE
    /\ isEditing = FALSE
    /\ editItems = <<>>
    /\ saving = FALSE
    /\ calls = {Call("list", 0, <<>>, NoDetail, "")}
    /\ editsLeft = MaxEdits
    /\ faultsLeft = MaxFaults

InvoiceNext ==
    \/ CalcPageUntouched /\ SelectionUntouched /\ \E c \in calls : ReceiveList(c)
    \/ CalcPageUntouched /\ SelectionUntouched /\ \E c \in calls : FailList(c)
    \/ CalcPageUntouched /\ SelectionUntouched /\ \E c \in calls : ReceiveDetail(c)
    \/ CalcPageUntouched /\ SelectionUntouched /\ \E c \in calls : FailDetail(c)
    \/ CalcPageUntouched /\ SelectionUntouched /\ \E c \in calls : ReceiveSave(c)
    \/ CalcPageUntouched /\ SelectionUntouched /\ \E c \in calls : FailSave(c)
    \/ CalcPageUntouched /\ SelectionUntouched /\ \E c \in calls : ReceiveStatusChange(c)
    \/ CalcPageUntouched /\ SelectionUntouched /\ \E c \in calls : FailStatusChange(c)
    \/ CalcPageUntouched /\ SelectionUntouched /\ \E id \in InvoiceIds : ClickViewDetail(id)
    \/ CalcPageUntouched /\ SelectionUntouched /\ CloseModal
    \/ CalcPageUntouched /\ SelectionUntouched /\ handleStartEdit
    \/ CalcPageUntouched /\ SelectionUntouched /\ handleCancelEdit
    \/ CalcPageUntouched /\ SelectionUntouched /\ \E index \in 1..Len(editItems), field \in {"suryang", "danga", "geumaek"},
          value \in NumericInputs : handleItemChange(index, field, value)
    \/ CalcPageUntouched /\ SelectionUntouched /\ \E index \in 1..Len(editItems), field \in {"hangmok", "bigo"},
          value \in TextInputs : handleItemChange(index, field, value)
    \/ CalcPageUntouched /\ SelectionUntouched /\ handleAddItem
    \/ CalcPageUntouched /\ SelectionUntouched /\ \E index \in 1..Len(editItems) : handleRemoveItem(index)
    \/ CalcPageUntouched /\ SelectionUntouched /\ handleSave
    \/ CalcPageUntouched /\ SelectionUntouched /\ \E id \in InvoiceIds : ClickConfirmInList(id)
    \/ CalcPageUntouched /\ SelectionUntouched /\ \E id \in InvoiceIds : ClickUnconfirmInList(id)
    \/ CalcPageUntouched /\ SelectionUntouched /\ ClickConfirmInDetail
    \/ CalcPageUntouched /\ SelectionUntouched /\ ClickUnconfirmInDetail
    \/ CalcPageUntouched /\ SelectionUntouched /\ \E id \in InvoiceIds : handleExportSingle(id)

SpecInvoice == InvoiceInit /\ [][InvoiceNext]_vars

\* An editing session: the page has loaded, the detail of invoice 1 is open
\* in edit mode, and the user edits the item list.
EditingInit ==
    /\ SignedIn
    /\ DefaultCharges
    /\ RatesIdle
    /\ NothingSelected
    /\ CalcIdle
    /\ MappingIdle
    /\ srvInvoices = [id \in InvoiceIds |-> SrvNewInvoice(SrvCalculatedItems(id))]
    /\ invoices = SrvListInvoices(srvInvoices)
    /\ loading = FALSE
    /\ error = NoError
    /\ detailInvoice = SrvGetInvoice(srvInvoices, 1)
    /\ loadingDetail = FALSE
    /\ isEditing = TRUE
    /\ editItems = detailInvoice.items
    /\ saving = FALSE
    /\ calls = {}
    /\ editsLeft = MaxItemEdits
    /\ faultsLeft = 0

EditingNext ==
    \/ CalcPageUntouched /\ SelectionUntouched /\ \E index \in 1..Len(editItems), field \in {"suryang", "danga", "geumaek"},
          value \in NumericInputs : handleItemChange(index, field, value)
    \/ CalcPageUntouched /\ SelectionUntouched /\ \E index \in 1..Len(editItems), field \in {"hangmok", "bigo"},
          value \in TextInputs : handleItemChange(index, field, value)
    \/ CalcPageUntouched /\ SelectionUntouched /\ handleAddItem
    \/ CalcPageUntouched /\ SelectionUntouched /\ \E index \in 1..Len(editItems) : handleRemoveItem(index)

SpecEditing == EditingInit /\ [][EditingNext]_vars

\* An editing session with its saves: the items are edited, saved, shown
\* again and edited further.
SavingNext ==
    \/ CalcPageUntouched /\ SelectionUntouched /\ \E index \in 1..Len(editItems), field \in {"suryang", "danga", "geumaek"},
          value \in NumericInputs : handleItemChange(index, field, value)
    \/ CalcPageUntouched /\ SelectionUntouched /\ \E index \in 1..Len(editItems), field \in {"hangmok", "bigo"},
          value \in TextInputs : handleItemChange(index, field, value)
    \/ CalcPageUntouched /\ SelectionUntouched /\ handleAddItem
    \/ CalcPageUntouched /\ SelectionUntouched /\ \E index \in 1..Len(editItems) : handleRemoveItem(index)
    \/ CalcPageUntouched /\ SelectionUntouched /\ handleStartEdit
    \/ CalcPageUntouched /\ SelectionUntouched /\ handleCancelEdit
    \/ CalcPageUntouched /\ SelectionUntouched /\ handleSave
    \/ CalcPageUntouched /\ SelectionUntouched /\ \E c \in calls : ReceiveSave(c)
    \/ CalcPageUntouched /\ SelectionUntouched /\ \E c \in calls : ReceiveDetail(c)
    \/ CalcPageUntouched /\ SelectionUntouched /\ \E c \in calls : ReceiveList(c)

SpecSaving == EditingInit /\ [][SavingNext]_vars

\* what localStorage 'user' can hold in a session that has the page open
LocalUsers == {NoStoredUser, BrokenStoredUser, StoredUser("")}
                 \cup {StoredUser(n) : n \in Nicknames}

\* another login, a logout or a cleared storage in the same browser
setLocalUser(u) ==
    /\ u # localUser
    /\ localUser' = u
    /\ UNCHANGED <<invoiceVars, calcVars, mappingVars, selectionVars, rateVars, chargeVars,
                   filterVars, periodVars, srvNow>>

\* time passes on the server
SrvTick ==
    /\ srvNow < MaxClock
    /\ srvNow' = srvNow + 1
    /\ UNCHANGED <<invoiceVars, calcVars, mappingVars, selectionVars, rateVars, chargeVars,
                   filterVars, periodVars, localUser>>

\* Saves of an invoice's items by whoever uses the browser.
StampsInit ==
    /\ DefaultCharges
    /\ RatesIdle
    /\ NothingSelected
    /\ CalcIdle
    /\ MappingIdle
    /\ localUser \in LocalUsers
    /\ srvNow = 1
    /\ selectedStatus = ""
    /\ srvInvoices = [id \in InvoiceIds |-> SrvNewInvoice(SrvCalculatedItems(id))]
    /\ invoices = SrvListInvoices(srvInvoices)
    /\ loading = FALSE
    /\ error = NoError
    /\ detailInvoice = SrvGetInvoice(srvInvoices, 1)
    /\ loadingDetail = FALSE
    /\ isEditing = TRUE
    /\ editItems = detailInvoice.items
    /\ saving = FALSE
    /\ calls = {}
    /\ editsLeft = MaxEdits
    /\ faultsLeft = 0

StampsNext ==
    \/ CalcPageUntouched /\ SelectionUntouched /\ handleAddItem
    \/ CalcPageUntouched /\ SelectionUntouched /\ handleStartEdit
    \/ CalcPageUntouched /\ SelectionUntouched /\ handleSave
    \/ CalcPageUntouched /\ SelectionUntouched /\ \E c \in calls : ReceiveSave(c)
    \/ CalcPageUntouched /\ SelectionUntouched /\ \E c \in calls : ReceiveDetail(c)
    \/ CalcPageUntouched /\ SelectionUntouched /\ \E c \in calls : ReceiveList(c)
    \/ \E u \in LocalUsers : setLocalUser(u)
    \/ SrvTick

SpecStamps == StampsInit /\ [][StampsNext]_vars


\* Deleting invoices: a session of one of the two list pages, opened on a
\* store with an Unconfirmed and a Confirmed invoice, the list loaded.
Stored(c) == c.id \in DOMAIN srvInvoices

\* the modal shows an invoice (a body without items cannot be rendered)
DetailUsable == detailInvoice # NotFoundBody

DeleteInit ==
    /\ SignedIn
    /\ DefaultCharges
    /\ RatesIdle
    /\ CalcIdle
    /\ MappingIdle
    /\ isAdmin \in BOOLEAN
    /\ pageVersion \in {"editing", "plain"}
    /\ selectedIds = <<>>
    /\ selectAll = FALSE
    /\ srvInvoices = [id \in 1..NumStored |->
                         IF id = NumStored
                         THEN [SrvNewInvoice(SrvCalculatedItems(id)) EXCEPT !.status = CONFIRMED]
                         ELSE SrvNewInvoice(SrvCalculatedItems(id))]
    /\ invoices = SrvListInvoices(srvInvoices)
    /\ loading = FALSE
    /\ error = NoError
    /\ detailInvoice = NoDetail
    /\ loadingDetail = FALSE
    /\ isEditing = FALSE
    /\ editItems = <<>>
    /\ saving = FALSE
    /\ calls = {}
    /\ editsLeft = MaxEdits
    /\ faultsLeft = 0

DeleteNext ==
    \/ CalcPageUntouched /\ SelectionUntouched /\ \E c \in calls : ReceiveList(c)
    \/ CalcPageUntouched /\ \E id \in 1..NumStored : handleToggleSelect(id)
    \/ CalcPageUntouched /\ \E id \in 1..NumStored : handleDelete(id)
    \/ CalcPageUntouched /\ \E c \in calls : ReceiveDelete(c)
    \/ CalcPageUntouched /\ handleDeleteSelected
    \/ CalcPageUntouched /\ \E c \in calls : ReceiveDeleteSelected(c)
    \/ CalcPageUntouched /\ \E id \in 1..NumStored : handleDelete005(id)
    \/ CalcPageUntouched /\ \E c \in calls : ReceiveDelete005(c)
    \/ CalcPageUntouched /\ handleDeleteSelected005
    \/ CalcPageUntouched /\ \E c \in calls : ReceiveDeleteSelected005(c)
    \/ CalcPageUntouched /\ SelectionUntouched /\ pageVersion = "editing"
          /\ \E id \in 1..NumStored : ClickViewDetail(id)
    \/ CalcPageUntouched /\ SelectionUntouched /\ \E c \in calls : Stored(c) /\ ReceiveDetail(c)
    \/ CalcPageUntouched /\ SelectionUntouched /\ \E c \in calls : RefuseDetail(c)
    \/ CalcPageUntouched /\ SelectionUntouched /\ DetailUsable /\ CloseModal
    \/ CalcPageUntouched /\ SelectionUntouched /\ DetailUsable /\ handleStartEdit
    \/ CalcPageUntouched /\ SelectionUntouched /\ DetailUsable /\ handleAddItem
    \/ CalcPageUntouched /\ SelectionUntouched /\ DetailUsable /\ handleSave
    \/ CalcPageUntouched /\ SelectionUntouched /\ \E c \in calls : Stored(c) /\ ReceiveSave(c)
    \/ CalcPageUntouched /\ SelectionUntouched /\ \E c \in calls : RefuseSave(c)
    \/ CalcPageUntouched /\ SelectionUntouched /\ pageVersion = "editing"
          /\ \E id \in 1..NumStored : ClickConfirmInList(id)
    \/ CalcPageUntouched /\ SelectionUntouched /\ pageVersion = "editing"
          /\ \E id \in 1..NumStored : ClickUnconfirmInList(id)
    \/ CalcPageUntouched /\ SelectionUntouched
          /\ \E c \in calls : Stored(c) /\ ReceiveStatusChange(c)
    \/ CalcPageUntouched /\ SelectionUntouched /\ \E c \in calls : RefuseStatusChange(c)

SpecDelete == DeleteInit /\ [][DeleteNext]_vars

\* The list page of an administrator: rows are selected and deleted in
\* bulk; a delete request may fail.  Invoices leave the store through bulk
\* deletes only.
BulkInit ==
    /\ SignedIn
    /\ DefaultCharges
    /\ RatesIdle
    /\ CalcIdle
    /\ MappingIdle
    /\ isAdmin = TRUE
    /\ pageVersion = "editing"
    /\ selectedIds = <<>>
    /\ selectAll = FALSE
    /\ srvInvoices = [id \in 1..NumStored |-> SrvNewInvoice(SrvCalculatedItems(id))]
    /\ invoices = SrvListInvoices(srvInvoices)
    /\ loading = FALSE
    /\ error = NoError
    /\ detailInvoice = NoDetail
    /\ loadingDetail = FALSE
    /\ isEditing = FALSE
    /\ editItems = <<>>
    /\ saving = FALSE
    /\ calls = {}
    /\ editsLeft = 0
    /\ faultsLeft = MaxFaults

BulkNext ==
    \/ CalcPageUntouched /\ \E id \in 1..NumStored : handleToggleSelect(id)
    \/ CalcPageUntouched /\ handleDeleteSelected
    \/ CalcPageUntouched /\ \E c \in calls : ReceiveDeleteSelected(c)
    \/ CalcPageUntouched /\ \E c \in calls : FailDeleteSelected(c)
    \/ CalcPageUntouched /\ SelectionUntouched /\ \E c \in calls : ReceiveList(c)

SpecBulk == BulkInit /\ [][BulkNext]_vars

\* the values of the status select: all, '확정', '미확정'
StatusFilters == {"", CONFIRMED, UNCONFIRMED}

\* The list page of an administrator with one invoice of each status: rows
\* are selected, the status filter is changed, rows are deleted one by one
\* or in bulk, and the selection is exported.
SelectionInit ==
    /\ SignedIn
    /\ DefaultCharges
    /\ RatesIdle
    /\ CalcIdle
    /\ MappingIdle
    /\ isAdmin = TRUE
    /\ pageVersion = "editing"
    /\ selectedIds = <<>>
    /\ selectAll = FALSE
    /\ srvInvoices = [id \in 1..NumStored |->
                         IF id = NumStored
                         THEN [SrvNewInvoice(SrvCalculatedItems(id)) EXCEPT !.status = CONFIRMED]
                         ELSE SrvNewInvoice(SrvCalculatedItems(id))]
    /\ invoices = SrvListInvoices(srvInvoices)
    /\ loading = FALSE
    /\ error = NoError
    /\ detailInvoice = NoDetail
    /\ loadingDetail = FALSE
    /\ isEditing = FALSE
    /\ editItems = <<>>
    /\ saving = FALSE
    /\ calls = {}
    /\ editsLeft = 0
    /\ faultsLeft = 0

SelectionNext ==
    \/ CalcPageUntouched /\ \E id \in 1..NumStored : handleToggleSelect(id)
    \/ CalcPageUntouched /\ handleSelectAllRows
    \/ OtherPagesUntouched /\ SelectionUntouched /\ \E status \in StatusFilters : setSelectedStatus(status)
    \/ CalcPageUntouched /\ SelectionUntouched /\ \E c \in calls : ReceiveList(c)
    \/ CalcPageUntouched /\ \E id \in 1..NumStored : handleDelete(id)
    \/ CalcPageUntouched /\ \E c \in calls : ReceiveDelete(c)
    \/ CalcPageUntouched /\ handleDeleteSelected
    \/ CalcPageUntouched /\ \E c \in calls : ReceiveDeleteSelected(c)
    \/ handleExportSelected

SpecSelection == SelectionInit /\ [][SelectionNext]_vars

\* The list of an unfiltered page with one invoice of each status; the
\* user changes the status filter and confirms or unconfirms rows.
FilterInit ==
    /\ DefaultCharges
    /\ RatesIdle
    /\ CalcIdle
    /\ MappingIdle
    /\ NothingSelected
    /\ localUser = StoredUser("kim") /\ srvNow = 1
    /\ selectedStatus = ""
    /\ srvInvoices = [id \in 1..NumStored |->
                         IF id = NumStored
                         THEN [SrvNewInvoice(SrvCalculatedItems(id)) EXCEPT !.status = CONFIRMED]
                         ELSE SrvNewInvoice(SrvCalculatedItems(id))]
    /\ invoices = SrvListInvoices(srvInvoices)
    /\ loading = FALSE
    /\ error = NoError
    /\ detailInvoice = NoDetail
    /\ loadingDetail = FALSE
    /\ isEditing = FALSE
    /\ editItems = <<>>
    /\ saving = FALSE
    /\ calls = {}
    /\ editsLeft = 0
    /\ faultsLeft = 0

FilterNext ==
    \/ OtherPagesUntouched /\ SelectionUntouched /\ \E status \in StatusFilters : setSelectedStatus(status)
    \/ CalcPageUntouched /\ SelectionUntouched /\ \E c \in calls : ReceiveList(c)
    \/ CalcPageUntouched /\ SelectionUntouched /\ \E id \in 1..NumStored : ClickConfirmInList(id)
    \/ CalcPageUntouched /\ SelectionUntouched /\ \E id \in 1..NumStored : ClickUnconfirmInList(id)
    \/ CalcPageUntouched /\ SelectionUntouched /\ \E c \in calls : ReceiveStatusChange(c)
    \/ CalcPageUntouched /\ SelectionUntouched /\ \E id \in 1..NumStored : ClickViewDetail(id)
    \/ CalcPageUntouched /\ SelectionUntouched /\ \E c \in calls : ReceiveDetail(c)
    \/ CalcPageUntouched /\ SelectionUntouched /\ CloseModal

SpecFilter == FilterInit /\ [][FilterNext]_vars

\* Rate tables and the courier-fee stage: the rates page of an
\* administrator opened on the shipping-zone table, and calculations for a
\* vendor with a given set of shipping-stat rows.
InitialTables ==
    { [p \in RatePlans |-> IF p = "STD"
                           THEN <<ShippingZoneRate(p, "z1", 0, 2, 1),
                                  ShippingZoneRate(p, "z2", 2, MaxLength, 2)>>
                           ELSE <<ShippingZoneRate(p, "z1", 1, MaxLength, 2)>>] }

\* the shipping-stat rows of the vendor in the period, as their lengths
StatRows == UNION {[1..n -> Lengths] : n \in 0..MaxRows}

RatesInit ==
    /\ SignedIn
    /\ CalcIdle
    /\ MappingIdle
    /\ NothingSelected
    /\ srvInvoices = <<>>
    /\ invoices = <<>> /\ loading = FALSE /\ error = NoError
    /\ detailInvoice = NoDetail /\ loadingDetail = FALSE /\ isEditing = FALSE
    /\ editItems = <<>> /\ saving = FALSE /\ calls = {}
    /\ DefaultCharges
    /\ srvZoneRates \in InitialTables
    /\ ratesPage = NoRatesPage
    /\ rateCalls = {RateCall("load", NoRatesPage.rateType, <<>>)}
    /\ srvStats \in StatRows
    /\ engineLog = <<>>
    /\ editsLeft = MaxRateEdits
    /\ faultsLeft = 0

RatesPageUntouched == UNCHANGED <<calcVars, mappingVars, selectionVars, chargeVars, sessionVars,
                                  filterVars, periodVars, invoices,
                                  loading,
                                  error, detailInvoice, loadingDetail, isEditing,
                                  editItems, saving, calls>>

RatesNext ==
    \/ RatesPageUntouched /\ \E plan \in RatePlans : setRateType(plan)
    \/ RatesPageUntouched /\ \E c \in rateCalls : ReceiveRates(c)
    \/ RatesPageUntouched /\ \E index \in 1..Len(ratesPage.shippingZoneData),
          field \in {"len_min_cm", "len_max_cm", "yogeum"}, value \in LengthInputs :
             updateShippingZone(index, field, value)
    \/ RatesPageUntouched /\ \E index \in 1..Len(ratesPage.shippingZoneData),
          value \in ZoneInputs : updateShippingZone(index, "gugan", value)
    \/ RatesPageUntouched /\ \E data \in CsvFiles(ratesPage.rateType) : handleFileUpload(data)
    \/ RatesPageUntouched /\ handleSaveRates
    \/ RatesPageUntouched /\ \E c \in rateCalls : ReceiveSaveRates(c)
    \/ RatesPageUntouched /\ \E plan \in RatePlans, include \in BOOLEAN :
          SrvGenerateInvoice(CourierParams(plan, include))

SpecRates == RatesInit /\ [][RatesNext]_vars

\* the invoice list page is not open
InvoiceIdle ==
    /\ SignedIn
    /\ RatesIdle
    /\ NothingSelected
    /\ srvInvoices = [id \in InvoiceIds |-> SrvNewInvoice(SrvCalculatedItems(id))]
    /\ invoices = <<>> /\ loading = FALSE /\ error = NoError
    /\ detailInvoice = NoDetail /\ loadingDetail = FALSE /\ isEditing = FALSE
    /\ editItems = <<>> /\ saving = FALSE /\ calls = {}

\* Batch calculation on the calculation page.
BatchInit ==
    /\ DefaultCharges
    /\ InvoiceIdle
    /\ MappingIdle
    /\ editsLeft = 0
    /\ CalcMounted
    /\ srvStages = AllStagesOk
    /\ faultsLeft = MaxFaults

BatchNext ==
    \/ \E m \in {"active", "inactive", "all"} : setShowMode(m)
    \/ handleSelectAll
    \/ \E k \in 1..Len(vendors) : handleToggleVendor(vendors[k].vendor)
    \/ handleBatchCalculate
    \/ \E duration \in 0..MaxElapsed : ReceiveBatchCalculate(duration)
    \/ \E duration \in 0..MaxElapsed : FailBatchCalculate(duration)
    \/ handleStopBatch
    \/ \E v \in srvVendors : SrvDeleteVendor(v)

SpecBatch == BatchInit /\ [][BatchNext]_vars

\* The batch page while the user changes the vendor selection, the
\* active/inactive filter, the dates and the options, before and during
\* a batch.
BatchParamsInit ==
    /\ DefaultCharges
    /\ InvoiceIdle
    /\ MappingIdle
    /\ editsLeft = MaxToggles
    /\ CalcMounted
    /\ srvStages = AllStagesOk
    /\ faultsLeft = 0

BatchParamsNext ==
    \/ \E m \in {"active", "inactive", "all"} : setShowMode(m)
    \/ handleSelectAll
    \/ \E k \in 1..Len(vendors) : handleToggleVendor(vendors[k].vendor)
    \/ \E s \in StageSet : setInclude(s)
    \/ \E d \in DateInputs : setDateFrom(d)
    \/ \E d \in DateInputs : setDateTo(d)
    \/ handleBatchCalculate
    \/ \E duration \in 0..MaxElapsed : ReceiveBatchCalculate(duration)
    \/ handleStopBatch

SpecBatchParams == BatchParamsInit /\ [][BatchParamsNext]_vars

\* the calculation request in flight returns or fails
BatchRequestSettles ==
    \E duration \in 0..MaxElapsed :
        ReceiveBatchCalculate(duration) \/ FailBatchCalculate(duration)

\* the batch page with the vendor list as loaded: the user selects, starts
\* and stops; requests return or fail
BatchRunNext ==
    \/ handleSelectAll
    \/ \E k \in 1..Len(vendors) : handleToggleVendor(vendors[k].vendor)
    \/ handleBatchCalculate
    \/ \E duration \in 0..MaxElapsed : ReceiveBatchCalculate(duration)
    \/ \E duration \in 0..MaxElapsed : FailBatchCalculate(duration)
    \/ handleStopBatch

\* The batch page under the claim's proviso: a calculation request that is
\* in flight eventually returns or fails.  Nothing is assumed of the user.
SpecBatchFair == BatchInit /\ [][BatchRunNext]_vars /\ WF_vars(BatchRequestSettles)

\* what the uploaded data and the rate tables may look like
StageScenarios ==
    { AllStagesOk,
      [AllStagesOk EXCEPT !["basic_shipping"] = "norate"],
      [AllStagesOk EXCEPT !["courier_fee"] = "nodata", !["worklog"] = "nodata"],
      [s \in StageSet |-> IF s \in {"inbound_fee", "remote_fee"} THEN "norate" ELSE "nodata"] }

\* Single calculation on the calculation page.
CalculateInit ==
    /\ DefaultCharges
    /\ InvoiceIdle
    /\ MappingIdle
    /\ editsLeft = MaxToggles
    /\ CalcMounted
    /\ srvStages \in StageScenarios
    /\ faultsLeft = MaxFaults

CalculateNext ==
    \/ \E m \in {"single", "batch"} : setMode(m)
    \/ \E text \in VendorInputs : setSingleVendor(text)
    \/ \E s \in StageSet : setInclude(s)
    \/ handleSingleCalculate
    \/ ReceiveSingleCalculate
    \/ FailSingleCalculate
    \/ \E v \in srvVendors : SrvDeleteVendor(v)

SpecCalculate == CalculateInit /\ [][CalculateNext]_vars

\* the charge lines that vendorCharges can return for the vendor and period
VendorChargeLists ==
    { <<>>,
      <<Item("adhoc", 1, 2, 2, "")>>,
      <<Item("adhoc", 1, 2, 2, ""), Item("recurring", 2, 1, 2, "")>>,
      <<Item("recurring", 1, 1, 1, ""), Item("recurring", 1, 1, 1, "")>> }

\* the lines that storageFees can return for the vendor and period
StorageFeeLists == { <<>>, <<Item("storage", MaxVal, 1, MaxVal, "")>> }

\* Single calculations with the include checkboxes in any position and
\* any charge lines in the database.
ChargesInit ==
    /\ InvoiceIdle
    /\ MappingIdle
    /\ srvVendorCharges \in VendorChargeLists
    /\ srvStorageFees \in StorageFeeLists
    /\ stageRun = NoStageRun
    /\ editsLeft = MaxToggles
    /\ DefaultPeriod
    /\ vendors = SrvVendorList
    /\ showMode = "active"
    /\ selectedVendors = VendorNames(filteredVendors)
    /\ includeOptions \in [StageSet -> BOOLEAN]
    /\ mode = "single"
    /\ singleVendor = <<"A">>
    /\ calcLoading = FALSE
    /\ result = NoResult
    /\ batchLogs = <<>>
    /\ batchProgress = 0
    /\ isBatchRunning = FALSE
    /\ stopRequested = FALSE
    /\ calcError = NoError
    /\ batch = NoBatch
    /\ single = NoSingle
    /\ deletesLeft = 0
    /\ srvStages \in StageScenarios
    /\ faultsLeft = 0

ChargesNext ==
    \/ \E s \in StageSet : setInclude(s)
    \/ handleSingleCalculate
    \/ ReceiveSingleCalculate

SpecCharges == ChargesInit /\ [][ChargesNext]_vars

\* One calculation of the engine, its stages ending in any order.
StagesInit ==
    /\ InvoiceIdle
    /\ MappingIdle
    /\ CalcMounted
    /\ srvVendorCharges = OneCharge
    /\ srvStorageFees = <<>>
    /\ stageRun = NoStageRun
    /\ srvStages \in StageScenarios
    /\ editsLeft = 0
    /\ faultsLeft = 0

StagesUntouched == UNCHANGED <<invoiceVars, mappingVars, selectionVars, rateVars, sessionVars,
                               filterVars, periodVars,
                               srvVendors, vendors, showMode, selectedVendors,
                               includeOptions, mode, singleVendor, calcLoading, result,
                               batchLogs, batchProgress, isBatchRunning, stopRequested,
                               calcError, batch, single, deletesLeft>>

StagesNext ==
    \/ StagesUntouched /\ \E options \in [StageSet -> BOOLEAN] : SrvStartStages(options)
    \/ StagesUntouched /\ \E s \in StageSet : SrvEndStage(s)
    \/ StagesUntouched /\ SrvMergeStages

SpecStages == StagesInit /\ [][StagesNext]_vars


\* a mapping page on which vendor v has been selected and has loaded
EditingMappingPage(registry, v) ==
    [MountedMappingPage(registry) EXCEPT
        !.selectedVendorId = v,
        !.isEditMode = TRUE,
        !.vendorPk = v,
        !.name = registry[v].name,
        !.alias = registry[v].alias,
        !.editAliasOptions =
            [loaded |-> TRUE,
             byType |-> [t \in FileTypeSet |-> SrvAliasesForVendor(registry, v, t)]]]

\* a mapping page on which the registration of vendor v has been typed in
RegisteringMappingPage(registry, v, n) ==
    [MountedMappingPage(registry) EXCEPT !.vendorPk = v, !.name = n]

\* what each administrator has on the screen: the first edits vendor B, the
\* second registers vendor N, any further one edits vendor C
OpenedMappingPage(registry, s) ==
    IF s = 1 THEN EditingMappingPage(registry, <<"B">>)
    ELSE IF s = 2 THEN RegisteringMappingPage(registry, <<"N">>, <<"n">>)
    ELSE EditingMappingPage(registry, <<"C">>)

\* Administrators work on the mapping page at the same time.
MappingInit ==
    /\ DefaultCharges
    /\ InvoiceIdle
    /\ CalcIdle
    /\ srvRegistry = SrvInitialRegistry
    /\ srvVendors = DOMAIN SrvInitialRegistry
    /\ pages = [s \in Sessions |-> OpenedMappingPage(SrvInitialRegistry, s)]
    /\ mapCalls = {}
    /\ editsLeft = MaxMappingEdits
    /\ faultsLeft = MaxFaults

MappingNext ==
    \/ \E s \in Sessions, v \in DOMAIN srvRegistry \cup {<<>>} : handleSelectVendor(s, v)
    \/ \E c \in mapCalls : ReceiveVendorDetail(c)
    \/ \E c \in mapCalls : ReceiveAliasOptions(c)
    \/ \E c \in mapCalls : FailSelectVendor(c)
    \/ \E s \in Sessions : ClickResetForm(s)
    \/ \E s \in Sessions, t \in FileTypeSet :
          \E opt \in SrvUploadedNames[t] : toggleOption(s, t, opt)
    \/ \E s \in Sessions, text \in VendorPkInputs : setVendorPk(s, text)
    \/ \E s \in Sessions, text \in NameInputs : setName(s, text)
    \/ \E s \in Sessions : handleSaveVendor(s)
    \/ \E c \in mapCalls : ReceiveSaveVendor(c)
    \/ \E c \in mapCalls : FailSaveVendor(c)
    \/ \E c \in mapCalls : ReceiveVendors(c)
    \/ \E c \in mapCalls : ReceiveAvailableAliases(c)
    \/ \E c \in mapCalls : FailReload(c)

SpecMapping == MappingInit /\ [][MappingNext]_vars


\* ----------------------------------------------------------------- claims
RECURSIVE AmountsSum(_)
AmountsSum(items) ==
    IF Len(items) = 0 THEN 0
    ELSE items[Len(items)].geumaek + AmountsSum(SubSeq(items, 1, Len(items) - 1))

InitialTotal(id) == AmountsSum(SrvCalculatedItems(id))

\* C1: for every invoice, totalAmount is the sum of the amounts of its
\* items: in the store after calculation and after every saved edit, in the
\* detail view, and in the total shown while the list is being edited.
C1_TotalIsSumOfAmounts ==
    /\ \A id \in InvoiceIds :
          srvInvoices[id].total_amount = AmountsSum(srvInvoices[id].items)
    /\ detailInvoice # NoDetail =>
          detailInvoice.total_amount = AmountsSum(detailInvoice.items)
    /\ isEditing => editTotalAmount = AmountsSum(editItems)

\* an edit that changed the total has been saved and is shown again
C1_Witness ==
    /\ DetailShown /\ ~isEditing /\ ~saving
    /\ detailInvoice.items = srvInvoices[detailInvoice.invoice_id].items
    /\ detailInvoice.items # SrvCalculatedItems(detailInvoice.invoice_id)
    /\ detailInvoice.total_amount # InitialTotal(detailInvoice.invoice_id)

StatusValues == {UNCONFIRMED, CONFIRMED}

\* C5: an invoice's status is always Unconfirmed or Confirmed (in the store,
\* in the list rows and in the detail view), and the stored status changes
\* only when a confirm request takes it from Unconfirmed to Confirmed or an
\* unconfirm request takes it from Confirmed to Unconfirmed.
C5_StatusMachine ==
    /\ [](/\ \A id \in InvoiceIds : srvInvoices[id].status \in StatusValues
          /\ \A k \in 1..Len(invoices) : invoices[k].status \in StatusValues
          /\ detailInvoice # NoDetail => detailInvoice.status \in StatusValues)
    /\ [][\A id \in InvoiceIds :
            srvInvoices'[id].status # srvInvoices[id].status =>
              \E c \in calls \ calls' :
                 /\ c.id = id
                 /\ \/ /\ c.op = "confirm"
                       /\ srvInvoices[id].status = UNCONFIRMED
                       /\ srvInvoices'[id].status = CONFIRMED
                    \/ /\ c.op = "unconfirm"
                       /\ srvInvoices[id].status = CONFIRMED
                       /\ srvInvoices'[id].status = UNCONFIRMED]_vars

\* a confirmed invoice whose edited items were saved and which was then
\* set back to Unconfirmed
C5_Witness ==
    \E id \in InvoiceIds :
       /\ srvInvoices[id].status = UNCONFIRMED
       /\ srvInvoices[id].items # SrvCalculatedItems(id)
       /\ detailInvoice.invoice_id = id
       /\ detailInvoice.status = UNCONFIRMED
       /\ \E k \in 1..Len(invoices) :
             invoices[k].invoice_id = id /\ invoices[k].status = CONFIRMED

Inconsistent(item) == item.geumaek # item.suryang * item.danga

SameNumbers(a, b) ==
    a.suryang = b.suryang /\ a.danga = b.danga /\ a.geumaek = b.geumaek

\* C6: an item whose amount differs from quantity * unit price appears in
\* the edited list only by direct entry of its amount (quantity and unit
\* price untouched) or because it was such an item already; changing a
\* quantity or unit price or adding an item never produces one.
C6_AmountIsQuantityTimesPrice ==
    [][\A i \in 1..Len(editItems') :
          Inconsistent(editItems'[i]) =>
             \/ \E j \in 1..Len(editItems) :
                   Inconsistent(editItems[j]) /\ SameNumbers(editItems[j], editItems'[i])
             \/ /\ Len(editItems') = Len(editItems)
                /\ editItems'[i].suryang = editItems[i].suryang
                /\ editItems'[i].danga = editItems[i].danga
                /\ editItems'[i].geumaek # editItems[i].geumaek]_vars

\* an amount was entered directly, a quantity was changed, an item was added
C6_Witness ==
    /\ isEditing /\ Len(editItems) = 3
    /\ Inconsistent(editItems[1])
    /\ editItems[2].suryang = 2 /\ editItems[2].geumaek = 2
    /\ editItems[3] = NewItem

\* items and total of an invoice, as one pair
Pair(inv) == <<inv.items, inv.total_amount>>

\* C10: an item edit is applied as a whole: the store never holds, and the
\* detail view never takes, the submitted items with the old total or the
\* new total with the old items. Every change of a stored invoice's items
\* or total installs the list of one save request together with its sum;
\* every detail the view takes is the stored pair or a pair it held before.
C10_EditIsAtomic ==
    [][/\ \A id \in InvoiceIds :
             Pair(srvInvoices'[id]) # Pair(srvInvoices[id]) =>
                \E c \in calls \ calls' :
                   /\ c.op = "save" /\ c.id = id
                   /\ srvInvoices'[id].items = c.items
                   /\ srvInvoices'[id].total_amount = AmountsSum(c.items)
       /\ (detailInvoice' # detailInvoice /\ detailInvoice' # NoDetail) =>
             \/ Pair(detailInvoice') = Pair(srvInvoices'[detailInvoice'.invoice_id])
             \/ \E c \in calls : /\ c.closure.invoice_id = detailInvoice'.invoice_id
                                 /\ Pair(c.closure) = Pair(detailInvoice')]_vars

\* a save has replaced items and total in the store while a reader's
\* request for the same invoice, sent before, is still in flight
C10_Witness ==
    \E c \in calls :
       /\ c.op = "detail" /\ c.cont = ""
       /\ srvInvoices[c.id].items # SrvCalculatedItems(c.id)
       /\ srvInvoices[c.id].total_amount # InitialTotal(c.id)
       /\ detailInvoice = NoDetail

\* a log entry of a vendor whose calculation has come back
Processed(log) == log.status \in {"success", "error"} /\ log.duration # <<>>

\* C2: in a batch, the failure of one vendor's calculation is recorded in
\* that vendor's own log entry and nothing else is touched: the entries of
\* the other vendors stay as they are, the next vendor is started in the
\* same step, and a batch that ends with a failed entry has processed every
\* one of its vendors.
C2_FailureIsIsolated ==
    /\ [][\A k \in 1..Len(batchLogs) :
            (isBatchRunning /\ batchLogs[k].status = "processing"
                            /\ batchLogs'[k].status = "error")
            => /\ Len(batchLogs') = Len(batchLogs)
               /\ batchLogs'[k].vendor = batchLogs[k].vendor
               /\ \A j \in 1..Len(batchLogs) \ {k, k + 1} : batchLogs'[j] = batchLogs[j]
               /\ k < Len(batchLogs) =>
                     /\ isBatchRunning'
                     /\ batchLogs'[k + 1].vendor = batchLogs[k + 1].vendor
                     /\ batchLogs'[k + 1].status = "processing"
               /\ k = Len(batchLogs) => ~isBatchRunning']_vars
    /\ []((~isBatchRunning /\ \E k \in 1..Len(batchLogs) :
                                 batchLogs[k].status = "error" /\ batchLogs[k].duration # <<>>)
          => \A j \in 1..Len(batchLogs) : Processed(batchLogs[j]))

\* a finished batch of three vendors whose second vendor did not exist
C2_Witness ==
    /\ ~isBatchRunning
    /\ Len(batchLogs) = 3
    /\ batchLogs[1].status = "success"
    /\ batchLogs[2].status = "error" /\ batchLogs[2].message.text = "VendorNotFound"
    /\ batchLogs[3].status = "success"

\* C3: once a stop has been requested during a batch, no vendor that is
\* still waiting is started.
C3_StopObservedAtNextCheck ==
    [][(isBatchRunning /\ stopRequested)
       => \A k \in 1..Len(batchLogs) :
             batchLogs[k].status = "pending" => batchLogs'[k].status # "processing"]_vars

\* C4: once a stop has been requested during a batch, the entries of the
\* vendors already processed stay as they are and the vendors not yet
\* started are left unprocessed.
C4_StoppedBatchKeepsEntries ==
    [][(isBatchRunning /\ stopRequested)
       => \A k \in 1..Len(batchLogs) :
             /\ Processed(batchLogs[k]) => batchLogs'[k] = batchLogs[k]
             /\ batchLogs[k].status = "pending" =>
                   /\ batchLogs'[k].status \in {"pending", "error"}
                   /\ batchLogs'[k].duration = <<>>]_vars

\* C7: for every source type, no alias belongs to two vendors.
C7_AliasPartition ==
    \A t \in FileTypeSet : \A v \in DOMAIN srvRegistry, w \in DOMAIN srvRegistry :
        v # w => srvRegistry[v].alias[t] \cap srvRegistry[w].alias[t] = {}

\* two vendors own aliases of the same source type, and one administrator
\* has been refused an alias that the other one took first
C7_Witness ==
    /\ \E t \in FileTypeSet : \E v \in DOMAIN srvRegistry, w \in DOMAIN srvRegistry :
          v # w /\ srvRegistry[v].alias[t] # {} /\ srvRegistry[w].alias[t] # {}
    /\ \E s \in Sessions : pages[s].error = "AliasConflict"
    /\ \E s \in Sessions : pages[s].success # ""

\* the save asks for an alias that another vendor owns for that source type
AsksForOwnedAlias(data) ==
    \E t \in FileTypeSet : \E a \in data.alias[t] :
        \E w \in DOMAIN srvRegistry \ {data.vendor} : a \in srvRegistry[w].alias[t]

\* C8: a save that asks for an alias owned by a different vendor for the
\* same source type leaves every vendor's alias sets as they were, and the
\* page that sent it shows AliasConflict and keeps its form.
C8_ConflictIsRejected ==
    [][\A c \in mapCalls :
          (c.op = "save" /\ c \notin mapCalls' /\ AsksForOwnedAlias(c.data))
          => /\ srvRegistry' = srvRegistry
             /\ faultsLeft' = faultsLeft =>
                   /\ pages'[c.session].error = "AliasConflict"
                   /\ pages'[c.session].alias = pages[c.session].alias
                   /\ pages'[c.session].vendorPk = pages[c.session].vendorPk]_vars

\* a page shows AliasConflict and still holds the alias that another vendor owns
C8_Witness ==
    \E s \in Sessions :
        /\ pages[s].error = "AliasConflict"
        /\ ~pages[s].saving
        /\ \E t \in FileTypeSet : \E a \in pages[s].alias[t] :
              \E w \in DOMAIN srvRegistry \ {Trim(pages[s].vendorPk)} :
                  a \in srvRegistry[w].alias[t]

\* a single calculation comes back in this step
SingleCalculationEnds == single.pending /\ ~single'.pending

\* the result holds, for every enabled stage, its item or its warning
StagesAccountedFor(params, r) ==
    /\ \A s \in StageSet :
          LET items == {k \in 1..Len(r.items) : r.items[k].hangmok = s}
              warnings == {k \in 1..Len(r.warnings) : r.warnings[k].stage = s}
          IN IF ~params.options[s] THEN items = {} /\ warnings = {}
             ELSE IF srvStages[s] = "ok"
             THEN /\ Cardinality(items) = 1 /\ warnings = {}
                  /\ \A k \in items : r.items[k].geumaek = StageQuantity[s] * StagePrice[s]
             ELSE items = {} /\ Cardinality(warnings) = 1
    /\ r.total_amount = AmountsSum(r.items)

\* the part of C9 about the later stages: for an existing vendor whose
\* request reaches the backend the calculation succeeds, and a stage with a
\* missing rate or an empty source adds a warning and no amount while the
\* items of the other stages are returned; for a missing vendor it fails
\* and leaves no result.
StagesNeverAbort ==
    SingleCalculationEnds =>
        /\ (single.params.vendor \in srvVendors /\ faultsLeft' = faultsLeft)
              => /\ calcError' = NoError
                 /\ result'.success
                 /\ StagesAccountedFor(single.params, result')
        /\ single.params.vendor \notin srvVendors
              => calcError' # NoError /\ result' = NoResult

\* C9 as stated: calculateInvoice fails as a whole only when the vendor
\* does not exist, and a missing rate or an empty source never aborts it.
C9_FailsOnlyForMissingVendor ==
    [][/\ StagesNeverAbort
       /\ (SingleCalculationEnds /\ calcError' # NoError)
             => single.params.vendor \notin srvVendors]_vars

\* C9, amended: calculateInvoice fails as a whole only when the vendor does
\* not exist or the request does not reach the backend, and a missing rate
\* or an empty source never aborts it.
C9_FailsOnlyForMissingVendorOrNetwork ==
    [][/\ StagesNeverAbort
       /\ (SingleCalculationEnds /\ calcError' # NoError)
             => \/ single.params.vendor \notin srvVendors
                \/ faultsLeft' < faultsLeft]_vars

\* a calculation has returned with warnings for some stages and with the
\* items of the others
C9_Witness ==
    /\ ~calcLoading
    /\ result.success
    /\ Len(result.warnings) > 0
    /\ Len(result.items) > 1
    /\ calcError = NoError

\* the requests of the batch that are in flight: the entries shown as
\* processing
InFlight == {k \in 1..Len(batchLogs) : batchLogs[k].status = "processing"}

\* C11: a batch works through its vendor list in order and one vendor at a
\* time: at most one calculation is in flight; while a batch runs exactly one
\* entry is processing, every entry before it has completed or failed and
\* every entry after it is still waiting; and an entry is started only in the
\* step in which the entry before it completed or failed.
C11_OneVendorAtATime ==
    /\ [](/\ Cardinality(InFlight) <= 1
          /\ isBatchRunning <=> InFlight # {}
          /\ isBatchRunning =>
                /\ InFlight = {batch.i}
                /\ Len(batchLogs) = Len(batch.selectedVendors)
                /\ \A k \in 1..Len(batchLogs) :
                      /\ batchLogs[k].vendor = batch.selectedVendors[k]
                      /\ k < batch.i => Processed(batchLogs[k])
                      /\ k > batch.i => batchLogs[k].status = "pending")
    /\ [][\A k \in 1..Len(batchLogs') :
             (isBatchRunning /\ batchLogs'[k].status = "processing" /\ k \notin InFlight)
             => /\ InFlight = {k - 1}
                /\ Processed(batchLogs'[k - 1])]_vars

\* the second of three vendors is being calculated, the first is done and
\* the third waits
C11_Witness ==
    /\ isBatchRunning
    /\ Len(batchLogs) = 3
    /\ Processed(batchLogs[1])
    /\ batchLogs[2].status = "processing"
    /\ batchLogs[3].status = "pending"

\* the loop left through its break: one entry says so
StoppedByUser(logs) == \E k \in 1..Len(logs) : logs[k].message.text = "stopped by user"

\* C12: the step that ends a batch without the stop branch leaves one entry
\* per vendor of the list, in the order of the list, each with status success
\* or error, a message of the calculation and its elapsed time; and a
\* displayed log of a batch that is over and was not stopped has no pending
\* or processing entry.
C12_FinishedBatchIsComplete ==
    /\ [][(isBatchRunning /\ ~isBatchRunning' /\ ~StoppedByUser(batchLogs'))
          => /\ Len(batchLogs') = Len(batch.selectedVendors)
             /\ \A k \in 1..Len(batchLogs') :
                   /\ batchLogs'[k].vendor = batch.selectedVendors[k]
                   /\ batchLogs'[k].status \in {"success", "error"}
                   /\ batchLogs'[k].message.text \notin {"waiting", "processing"}
                   /\ batchLogs'[k].duration \in {<<d>> : d \in 0..MaxElapsed}]_vars
    /\ []((~isBatchRunning /\ ~StoppedByUser(batchLogs))
          => \A k \in 1..Len(batchLogs) : Processed(batchLogs[k]))

\* a batch over three vendors has run to its end, with a failure among the
\* successes
C12_Witness ==
    /\ ~isBatchRunning
    /\ ~StoppedByUser(batchLogs)
    /\ Len(batchLogs) = 3
    /\ \E k \in 1..3 : batchLogs[k].status = "success" /\ batchLogs[k].message.text = "done"
    /\ \E k \in 1..3 : batchLogs[k].status = "error" /\ batchLogs[k].duration # <<>>

\* C13: editing does not look at the status.  Whenever the detail of an
\* invoice is shown outside edit mode, Confirmed or not, edit mode can be
\* entered; entering it copies the shown items; and every save request that
\* is answered stores its item list for its invoice, whatever the status of
\* the invoice, and leaves the status as it was.
C13_EditRegardlessOfStatus ==
    /\ []((DetailShown /\ ~isEditing) => ENABLED handleStartEdit)
    /\ [][(~isEditing /\ isEditing') => editItems' = detailInvoice.items]_vars
    /\ [][\A c \in calls \ calls' :
             (c.op = "save" /\ faultsLeft' = faultsLeft)
             => /\ srvInvoices'[c.id].items = c.items
                /\ srvInvoices'[c.id].status = srvInvoices[c.id].status]_vars

\* the edited item list of a Confirmed invoice has just been stored by a
\* save sent from its detail view
C13_Witness ==
    /\ DetailShown /\ isEditing /\ saving
    /\ detailInvoice.status = CONFIRMED
    /\ srvInvoices[detailInvoice.invoice_id].status = CONFIRMED
    /\ srvInvoices[detailInvoice.invoice_id].items = editItems
    /\ editItems # SrvCalculatedItems(detailInvoice.invoice_id)

\* the invoice is gone from the store
Deleted(id) == id \notin DOMAIN srvInvoices

\* no request is in flight
Settled == calls = {}

\* once its requests have settled, the page lists no deleted invoice
DeletedNotListed ==
    Settled => \A id \in 1..NumStored : Deleted(id) => id \notin ListedIds

\* once its requests have settled, the page shows no deleted invoice in
\* the detail view
DeletedNotShown ==
    Settled => \A id \in 1..NumStored : Deleted(id) => detailInvoice.invoice_id # id

\* C14: deletion is terminal.  A deleted invoice never comes back to the
\* store, so that no confirm, unconfirm or edit is applied to it; and once
\* the requests of the page have settled, a deleted invoice is neither
\* listed nor shown in the detail view.
C14_DeleteIsTerminal ==
    /\ [][\A id \in 1..NumStored : Deleted(id) => id \notin DOMAIN srvInvoices']_vars
    /\ [](DeletedNotListed /\ DeletedNotShown)

\* the requests that delete an invoice
DeleteOps == {"delete", "deleteSelected", "delete005", "deleteSelected005"}

\* C15: a delete request for an invoice, single or one of a bulk deletion,
\* is sent only in a session of an administrator.
C15_DeleteIsAdminOnly ==
    [][\A c \in calls' \ calls : c.op \in DeleteOps => isAdmin]_vars


\* ------------------------------------------------------------------- C16
\* two bands share a length
BandsOverlap(rows) ==
    \E i, j \in 1..Len(rows) :
        /\ i # j
        /\ \E l \in 0..MaxLength + 1 :
              /\ rows[i].len_min_cm <= l /\ l < rows[i].len_max_cm
              /\ rows[j].len_min_cm <= l /\ l < rows[j].len_max_cm

\* the bands leave no length out between the lowest and the highest end
BandsContiguous(rows) ==
    \A l \in 0..MaxLength + 1 :
        (/\ \E i \in 1..Len(rows) : rows[i].len_min_cm <= l
         /\ \E j \in 1..Len(rows) : l < rows[j].len_max_cm)
        => \E k \in 1..Len(rows) : rows[k].len_min_cm <= l /\ l < rows[k].len_max_cm

\* a save of the rates page is answered in this step
SaveAnswered(c) == c \in rateCalls /\ c.op = "save" /\ rateCalls' = rateCalls \ {c}

\* C16: for each rate plan the stored shipping-zone bands are contiguous,
\* non-overlapping length intervals, and a save whose bands overlap is
\* refused: the stored bands stay as they were and the page shows the error.
C16_StoredBandsAreIntervals ==
    /\ [](\A plan \in RatePlans :
             ~BandsOverlap(srvZoneRates[plan]) /\ BandsContiguous(srvZoneRates[plan]))
    /\ [][\A c \in rateCalls :
             SaveAnswered(c) /\ BandsOverlap(c.rates)
                => srvZoneRates' = srvZoneRates /\ ratesPage'.error # NoError]_vars

\* a save with overlapping bands was refused while the table it was aimed
\* at holds other bands
C16_Witness ==
    /\ BandsOverlap(ratesPage.shippingZoneData)
    /\ ratesPage.error # NoError
    /\ ~ratesPage.saving /\ ~ratesPage.loading
    /\ rateCalls = {}
    /\ srvZoneRates[ratesPage.rateType] # ratesPage.shippingZoneData
    /\ srvZoneRates[ratesPage.rateType] # <<>>


\* ------------------------------------------------------------------- C17
\* the bands of the plan with len_min_cm <= lengthCm < len_max_cm
CoveringBands(rates, plan, lengthCm) ==
    {k \in 1..Len(rates[plan]) :
        rates[plan][k].len_min_cm <= lengthCm /\ lengthCm < rates[plan][k].len_max_cm}

\* C17: shippingZonePrice(ratePlan, lengthCm) returns the price of the band
\* of that plan with min <= lengthCm < max, a length equal to a band's max
\* not being in that band, and fails with RateNotFound when no band of the
\* plan covers the length.
C17_LookupIsHalfOpen ==
    \A plan \in RatePlans, lengthCm \in 0..MaxLength + 1 :
        LET found == shippingZonePrice(srvZoneRates, plan, lengthCm)
            covering == CoveringBands(srvZoneRates, plan, lengthCm)
        IN IF covering = {} THEN found = RateNotFound
           ELSE /\ found.ok
                /\ \E k \in covering :
                      /\ found.yogeum = srvZoneRates[plan][k].yogeum
                      /\ found.gugan = srvZoneRates[plan][k].gugan

\* a calculation priced a parcel whose length is the start of a band and
\* found no band for a parcel whose length is the end of the last band
C17_Witness ==
    \E n \in 1..Len(engineLog) :
        LET e == engineLog[n]
            rows == e.rates[e.params.rateType]
        IN /\ e.params.include_courier_fee
           /\ \E i, j \in 1..Len(e.lengths), k \in 1..Len(rows) :
                 /\ e.lengths[i] = rows[k].len_max_cm
                 /\ shippingZonePrice(e.rates, e.params.rateType, e.lengths[i]) = RateNotFound
                 /\ e.lengths[j] = rows[k].len_min_cm
                 /\ shippingZonePrice(e.rates, e.params.rateType, e.lengths[j]).yogeum
                       = rows[k].yogeum
                 /\ e.lengths[j] > 0
           /\ e.data.courier.unmatched = 1
           /\ Len(e.data.courier.items) = 1


\* ------------------------------------------------------------------- C18
RECURSIVE SumSuryang(_)
SumSuryang(items) ==
    IF items = <<>> THEN 0 ELSE Head(items).suryang + SumSuryang(Tail(items))

\* C18: in the courier-fee stage every shipping-stat row is counted in
\* exactly one zone bucket or in the unmatched counter: the quantities of
\* the zone items plus the unmatched count equal the number of rows queried.
C18_EveryRowCountedOnce ==
    \A n \in 1..Len(engineLog) :
        engineLog[n].params.include_courier_fee
           => SumSuryang(engineLog[n].data.courier.items)
                 + engineLog[n].data.courier.unmatched = Len(engineLog[n].lengths)

\* over the same rows one calculation found a zone for every row and put
\* them into two zones, another left a row unmatched
C18_Witness ==
    \E m, n \in 1..Len(engineLog) :
        /\ engineLog[m].params.include_courier_fee
        /\ engineLog[n].params.include_courier_fee
        /\ Len(engineLog[m].lengths) = MaxRows
        /\ Len(engineLog[m].data.courier.items) = 2
        /\ engineLog[m].data.courier.unmatched = 0
        /\ engineLog[n].data.courier.unmatched > 0
        /\ engineLog[n].data.courier.items # <<>>


\* ------------------------------------------------------------------- C19
\* two answered calculations were asked the same and read the same data
SameCallSameData(a, b) ==
    a.params = b.params /\ a.rates = b.rates /\ a.lengths = b.lengths

HoldsComputedAmounts(e) ==
    /\ e.invoice_id \in DOMAIN srvInvoices
    /\ srvInvoices[e.invoice_id].items = e.data.items
    /\ srvInvoices[e.invoice_id].total_amount = e.data.total_amount

LastItems(items, n) ==
    IF n > Len(items) THEN <<>> ELSE SubSeq(items, Len(items) - n + 1, Len(items))

\* C21: the vendor's ad-hoc/recurring charges and storage fees are appended
\* to the items whatever the include flags say: for every combination of
\* the five flags, all false included, a returned calculation ends with
\* every line of vendorCharges and then every line of storageFees.
C21_ChargesAreNotGated ==
    result.success
       => /\ Len(result.items) >= Len(srvVendorCharges) + Len(srvStorageFees)
          /\ LastItems(result.items, Len(srvVendorCharges) + Len(srvStorageFees))
                = srvVendorCharges \o srvStorageFees

\* a calculation sent with all five flags off returned the vendor's two
\* charge lines and the storage fee and nothing else
C21_Witness ==
    /\ result.success
    /\ editsLeft = MaxToggles
    /\ \A s \in StageSet : ~includeOptions[s]
    /\ Len(srvVendorCharges) = 2
    /\ srvStorageFees # <<>>
    /\ result.items = srvVendorCharges \o srvStorageFees
    /\ result.total_amount = SrvTotal(srvVendorCharges) + SrvTotal(srvStorageFees)


\* ------------------------------------------------------------------- C22
\* the response of a calculation whose stages have all ended
StagesMerged == ~stageRun.running /\ Len(stageRun.ended) = Len(Stages)

\* C22: in whatever order the stages of a calculation are executed, the
\* resulting warnings list is the same: the warnings are merged in stage
\* order, as if the stages had run one after the other.
C22_WarningsInStageOrder ==
    StagesMerged
       => /\ stageRun.warnings = SrvWarningsUpTo(srvStages, stageRun.options, Len(Stages))
          /\ stageRun.items
                = SrvItemsUpTo(srvStages, stageRun.options, Len(Stages)) \o SrvCharges

\* the stages ended in the reverse of the stage order, two of them with a
\* warning, and the warnings are listed in stage order
C22_Witness ==
    /\ StagesMerged
    /\ \A k \in 1..Len(Stages) : stageRun.ended[k] = Stages[Len(Stages) + 1 - k]
    /\ Len(stageRun.warnings) = 2
    /\ stageRun.warnings[1].stage = "courier_fee"
    /\ stageRun.warnings[2].stage = "worklog"


\* ------------------------------------------------------------------- C23
\* new is old with one item changed in place, with one item added at the
\* end, or with one item taken out and the others in the order they had
OrderKept(old, new) ==
    \/ /\ Len(new) = Len(old)
       /\ \E i \in 1..Len(old) : \A k \in 1..Len(old) : k # i => new[k] = old[k]
    \/ /\ Len(new) = Len(old) + 1
       /\ SubSeq(new, 1, Len(old)) = old
       /\ new[Len(new)] = Item("", 0, 0, 0, "")
    \/ /\ Len(new) = Len(old) - 1
       /\ \E i \in 1..Len(old) :
             /\ \A k \in 1..Len(new) : k < i => new[k] = old[k]
             /\ \A k \in 1..Len(new) : k >= i => new[k] = old[k + 1]

\* C23: the order of an invoice's items is preserved: changing a field of
\* an item or removing an item leaves the other items in their order, an
\* added item is placed last, the save stores the list as submitted and the
\* saved invoice is shown in that order.
C23_ItemOrderIsPreserved ==
    /\ [][isEditing /\ isEditing' /\ editItems' # editItems
             => OrderKept(editItems, editItems')]_vars
    /\ [][\A c \in calls :
             c.op = "save" /\ c \notin calls'
                => srvInvoices'[c.id].items = c.items]_vars
    /\ [][\A c \in calls :
             c.op = "detail" /\ c \notin calls'
                => detailInvoice'.items = srvInvoices[c.id].items]_vars

\* the first of three items was removed, the list was saved and the detail
\* shows the two others in the order they had
C23_Witness ==
    /\ DetailShown /\ ~isEditing /\ ~saving /\ calls = {}
    /\ editsLeft = MaxItemEdits - 2
    /\ detailInvoice.items = <<Item("zone", 1, 1, 1, ""), Item("", 0, 0, 0, "")>>
    /\ srvInvoices[detailInvoice.invoice_id].items = detailInvoice.items


\* ------------------------------------------------------------------- C24
\* the save c is answered in this step
ItemsSaved(c) == c \in calls /\ c.op = "save" /\ c \notin calls'

\* C24: every successful item edit stamps the invoice with modifiedBy, the
\* user who submitted the edit, and modifiedAt: after an answered save the
\* stored modifier is the name of a user and the stored time is the time of
\* the write.
C24_SaveStampsTheUser ==
    [][\A c \in calls :
          ItemsSaved(c) => /\ srvInvoices'[c.id].modified_by \in Nicknames
                           /\ srvInvoices'[c.id].modified_at = srvNow]_vars

\* C24, with the session that names no user: every answered save stamps
\* the invoice with the nickname the client sent and the time of the
\* write, and the client sends the nickname of the stored user, or
\* '시스템' (System) when the browser holds no user, a user that does not
\* parse, or a user without nickname.
C24_SaveStampsTheSender ==
    /\ [][\A c \in calls :
             ItemsSaved(c) => /\ srvInvoices'[c.id].modified_by = c.user
                              /\ srvInvoices'[c.id].modified_at = srvNow]_vars
    /\ [][\A c \in calls' \ calls :
             c.op = "save"
                => /\ localUser \in {StoredUser(n) : n \in Nicknames}
                         => c.user = localUser.nickname
                   /\ localUser \notin {StoredUser(n) : n \in Nicknames}
                         => c.user = "System"]_vars

\* a session whose browser holds no user saved an invoice some time after
\* the run began: the invoice is stamped System at the time of that save
C24_Witness ==
    /\ ~localUser.stored
    /\ calls = {} /\ ~saving /\ DetailShown
    /\ srvNow > 1
    /\ srvInvoices[1].modified_by = SYSTEM
    /\ srvInvoices[1].modified_at = srvNow
    /\ Len(srvInvoices[1].items) = Len(SrvCalculatedItems(1)) + 1


\* ------------------------------------------------------------------- C25
\* C25: once all requests in flight have settled, the detail view shows the
\* status that the invoice it shows has on the server, however detail-open,
\* confirm and unconfirm requests and their responses interleave.
C25_SettledDetailIsCurrent ==
    (calls = {} /\ DetailShown /\ detailInvoice.invoice_id \in DOMAIN srvInvoices)
       => detailInvoice.status = srvInvoices[detailInvoice.invoice_id].status


\* ------------------------------------------------------------------- C26
\* C26: once all list loads in flight have settled, the displayed invoice
\* list is the one the server returns for the currently selected filter,
\* also when the filter was changed while an earlier request was in flight.
C26_SettledListMatchesFilter ==
    (calls = {} /\ ~loading)
       => invoices = SrvListFiltered(srvInvoices, selectedStatus)


\* ------------------------------------------------------------------- C27
\* C27: every started batch terminates: provided each calculation request
\* eventually returns or fails, a running batch leaves the running state,
\* whether it runs to the end, is stopped, or every vendor fails.
C27_BatchTerminates == isBatchRunning ~> ~isBatchRunning

\* a batch has ended with every calculation request failed
C27_Witness ==
    /\ ~isBatchRunning
    /\ batch = NoBatch
    /\ Len(batchLogs) > 0
    /\ \A k \in 1..Len(batchLogs) :
          batchLogs[k].status = "error" /\ batchLogs[k].duration # <<>>


\* ------------------------------------------------------------------- C28
\* C28: when a bulk delete has ended, completed or stopped at the first
\* failed delete, and nothing is in flight any more, no invoice that was
\* deleted on the server is still listed or still selected.
C28_BulkDeleteLeavesNoDeleted ==
    (calls = {} /\ ~loading)
       => /\ \A k \in 1..Len(invoices) : invoices[k].invoice_id \in DOMAIN srvInvoices
          /\ \A k \in 1..Len(selectedIds) : selectedIds[k] \in DOMAIN srvInvoices


\* ------------------------------------------------------------------- C29
\* C29: the selected invoice ids are always a subset of the ids of the
\* invoices currently listed, also after filter changes, reloads and
\* deletions, so that bulk delete and export of the selection act on
\* displayed invoices only.
C29_SelectionIsListed ==
    \A k \in 1..Len(selectedIds) : selectedIds[k] \in ListedIds


\* ------------------------------------------------------------------- C30
\* C30: a running batch processes exactly the vendor list, the date range
\* and the include options that were in effect when it was started: its
\* first request is for the first selected vendor with the dates and
\* options of the page, every further request is for the next vendor of
\* that list with the dates and options of the request before, whatever
\* the user changes meanwhile, and the batch ends after the last vendor of
\* that list with one log entry for each of them.
C30_BatchUsesStartParameters ==
    [][ /\ (~isBatchRunning /\ isBatchRunning')
            => /\ batch'.selectedVendors = selectedVendors
               /\ batch'.i = 1
               /\ batch'.request =
                     CalculateParams(selectedVendors[1], dateFrom, dateTo, includeOptions)
        /\ (batch.pc = "await" /\ batch'.pc = "await" /\ batch' # batch)
            => /\ batch'.selectedVendors = batch.selectedVendors
               /\ batch'.i = batch.i + 1
               /\ batch'.request =
                     CalculateParams(batch.selectedVendors[batch.i + 1],
                                     batch.request.date_from, batch.request.date_to,
                                     batch.request.options)
        /\ (batch.pc = "await" /\ batch'.pc # "await")
            => /\ batch.i = Len(batch.selectedVendors)
               /\ VendorNames(batchLogs') = batch.selectedVendors
      ]_vars

\* the second request of a batch is in flight after the user has changed
\* the selection, the start date and an option during the run
C30_Witness ==
    /\ batch.pc = "await"
    /\ batch.i = 2
    /\ batch.selectedVendors # selectedVendors
    /\ batch.request.options # includeOptions
    /\ batch.request.date_from # dateFrom







=============================================================================
